---------------------------- MODULE Spec2Model ----------------------------
(***************************************************************************)
(* A model of the RustNES core: the PPU register file and its scanline     *)
(* clock (src/src/ppu/mod.rs), the system bus (src/src/bus.rs) and the     *)
(* CPU run loop with NMI delivery (src/src/cpu.rs).                        *)
(*                                                                         *)
(* Objects are records, one variable per object; every method is an        *)
(* operator from the object's state (and the method's arguments) to the    *)
(* state after the call, so that a method which calls other methods is the *)
(* composition of their operators.  Bytes are integers 0..255.  The fixed  *)
(* arrays (vram, palette_table, oam_data, cpu_vram) start zeroed and are   *)
(* kept as the finite map of their non-zero cells.                         *)
(***************************************************************************)
EXTENDS Integers, Sequences, FiniteSets, TLC

VARIABLES
    ppu,        \* NesPPU
    bus,        \* Bus without its ppu: cpu_vram, cycles, frame callback count
    cpu,        \* CPU registers
    loop_pc,    \* position of CPU::run_with_callback inside its loop body
    fatal,      \* TRUE once a panic! has aborted the program
    op,         \* the last operation performed
    arg,        \* its argument
    ret,        \* its return value
    hist        \* values remembered from earlier operations of a sequence

vars == <<ppu, bus, cpu, loop_pc, fatal, op, arg, ret, hist>>

---------------------------------------------------------------------------
(* Bytes, bits and arrays                                                  *)

RECURSIVE BitAnd(_, _)
BitAnd(a, b) ==
    IF a = 0 \/ b = 0 THEN 0
    ELSE (a % 2) * (b % 2) + 2 * BitAnd(a \div 2, b \div 2)

RECURSIVE BitXor(_, _)
BitXor(a, b) ==
    IF a = 0 THEN b
    ELSE IF b = 0 THEN a
    ELSE ((a + b) % 2) + 2 * BitXor(a \div 2, b \div 2)

BitOr(a, b) == a + b - BitAnd(a, b)

\* bitflags: contains / insert / remove / set of a single-bit flag
Contains(bits, flag) == (bits \div flag) % 2 = 1
Insert(bits, flag) == IF Contains(bits, flag) THEN bits ELSE bits + flag
Remove(bits, flag) == IF Contains(bits, flag) THEN bits - flag ELSE bits
SetFlag(bits, flag, b) == IF b THEN Insert(bits, flag) ELSE Remove(bits, flag)

\* bool as u16
Count(b) == IF b THEN 1 ELSE 0

\* u8 arithmetic
WrapAdd8(a, b) == (a + b) % 256
WrapSub8(a, b) == (a - b + 256) % 256

\* a zero-initialised array as the map of its non-zero cells
EmptyMem == [i \in {} |-> 0]
Load(mem, i) == IF i \in DOMAIN mem THEN mem[i] ELSE 0
Store(mem, i, v) ==
    IF v = 0 THEN [j \in DOMAIN mem \ {i} |-> mem[j]]
    ELSE [j \in DOMAIN mem \cup {i} |-> IF j = i THEN v ELSE mem[j]]

\* Option<u8>
None == <<>>
Some(v) == <<v>>

---------------------------------------------------------------------------
(* PPU registers: control.rs, mask.rs, status.rs                           *)

VRAM_ADD_INC == 4
GENERATE_NMI == 128
SHOW_SPRITES == 16
SPRITE_OVERFLOW == 32
SPRITE_ZERO_HIT == 64
VERTICAL_BLANK == 128

generate_nmi(ctrl) == Contains(ctrl, GENERATE_NMI)
vram_addr_increment(ctrl) == IF ~Contains(ctrl, VRAM_ADD_INC) THEN 1 ELSE 32
show_sprites(mask) == Contains(mask, SHOW_SPRITES)
set_sprite_zero_hit(status, hit) == SetFlag(status, SPRITE_ZERO_HIT, hit)
set_vertical_blank(status, blank) == SetFlag(status, VERTICAL_BLANK, blank)
reset_vertical_blank(status) == Remove(status, VERTICAL_BLANK)
is_in_vertical_blank(status) == Contains(status, VERTICAL_BLANK)

---------------------------------------------------------------------------
(* NesPPU                                                                  *)

DotsPerScanline == 341
VBlankScanline == 241
ScanlinesPerFrame == 262

NesPPU_new(mirroring) ==
    [ palette_table |-> EmptyMem,
      vram |-> EmptyMem,
      oam_data |-> EmptyMem,
      oam_addr |-> 0,
      mirroring |-> mirroring,
      internal_data_buffer |-> 0,
      addr |-> [hi |-> 0, lo |-> 0, hi_ptr |-> TRUE],
      ctrl |-> 0,
      mask |-> 0,
      scroll |-> [scroll_x |-> 0, scroll_y |-> 0, latch |-> FALSE],
      status |-> 0,
      scanline |-> 0,
      cycles |-> 0,
      nmi_interrupt |-> None ]

is_sprite_0_hit(p, cycle) ==
    LET y == Load(p.oam_data, 0)
        x == Load(p.oam_data, 3)
    IN  y = p.scanline /\ x <= cycle /\ show_sprites(p.mask)

\* mutant: the frame-completing tick forgets to drop the pending NMI
NesPPU_tick_keeps_nmi(p, cycle) ==
    LET c1 == p.cycles + cycle IN
    IF c1 >= DotsPerScanline
    THEN LET s1 == IF is_sprite_0_hit(p, c1)
                   THEN set_sprite_zero_hit(p.status, TRUE)
                   ELSE p.status
             c2 == c1 - DotsPerScanline
             sl == p.scanline + 1
             s2 == IF sl = VBlankScanline
                   THEN set_sprite_zero_hit(set_vertical_blank(s1, TRUE), FALSE)
                   ELSE s1
             n2 == IF sl = VBlankScanline /\ generate_nmi(p.ctrl)
                   THEN Some(1)
                   ELSE p.nmi_interrupt
         IN  IF sl >= ScanlinesPerFrame
             THEN [ ppu |-> [p EXCEPT !.cycles = c2,
                                      !.scanline = 0,
                                      !.status = reset_vertical_blank(
                                                    set_sprite_zero_hit(s2, FALSE))],
                    ret |-> TRUE ]
             ELSE [ ppu |-> [p EXCEPT !.cycles = c2,
                                      !.scanline = sl,
                                      !.nmi_interrupt = n2,
                                      !.status = s2],
                    ret |-> FALSE ]
    ELSE [ ppu |-> [p EXCEPT !.cycles = c1], ret |-> FALSE ]

\* mutant: the tick onto scanline 241 raises the NMI whatever ctrl says
NesPPU_tick_nmi_always(p, cycle) ==
    LET c1 == p.cycles + cycle IN
    IF c1 >= DotsPerScanline
    THEN LET s1 == IF is_sprite_0_hit(p, c1)
                   THEN set_sprite_zero_hit(p.status, TRUE)
                   ELSE p.status
             c2 == c1 - DotsPerScanline
             sl == p.scanline + 1
             s2 == IF sl = VBlankScanline
                   THEN set_sprite_zero_hit(set_vertical_blank(s1, TRUE), FALSE)
                   ELSE s1
             n2 == IF sl = VBlankScanline
                   THEN Some(1)
                   ELSE p.nmi_interrupt
         IN  IF sl >= ScanlinesPerFrame
             THEN [ ppu |-> [p EXCEPT !.cycles = c2,
                                      !.scanline = 0,
                                      !.nmi_interrupt = None,
                                      !.status = reset_vertical_blank(
                                                    set_sprite_zero_hit(s2, FALSE))],
                    ret |-> TRUE ]
             ELSE [ ppu |-> [p EXCEPT !.cycles = c2,
                                      !.scanline = sl,
                                      !.nmi_interrupt = n2,
                                      !.status = s2],
                    ret |-> FALSE ]
    ELSE [ ppu |-> [p EXCEPT !.cycles = c1], ret |-> FALSE ]

\* tick returns the PPU after the call and the bool it returns
NesPPU_tick(p, cycle) ==
    LET c1 == p.cycles + cycle IN
    IF c1 >= DotsPerScanline
    THEN LET s1 == IF is_sprite_0_hit(p, c1)
                   THEN set_sprite_zero_hit(p.status, TRUE)
                   ELSE p.status
             c2 == c1 - DotsPerScanline
             sl == p.scanline + 1
             s2 == IF sl = VBlankScanline
                   THEN set_sprite_zero_hit(set_vertical_blank(s1, TRUE), FALSE)
                   ELSE s1
             n2 == IF sl = VBlankScanline /\ generate_nmi(p.ctrl)
                   THEN Some(1)
                   ELSE p.nmi_interrupt
         IN  IF sl >= ScanlinesPerFrame
             THEN [ ppu |-> [p EXCEPT !.cycles = c2,
                                      !.scanline = 0,
                                      !.nmi_interrupt = None,
                                      !.status = reset_vertical_blank(
                                                    set_sprite_zero_hit(s2, FALSE))],
                    ret |-> TRUE ]
             ELSE [ ppu |-> [p EXCEPT !.cycles = c2,
                                      !.scanline = sl,
                                      !.nmi_interrupt = n2,
                                      !.status = s2],
                    ret |-> FALSE ]
    ELSE [ ppu |-> [p EXCEPT !.cycles = c1], ret |-> FALSE ]

\* mutant: the poll leaves the token in place
poll_nmi_interrupt_no_take(p) ==
    [ ppu |-> p, ret |-> p.nmi_interrupt ]

poll_nmi_interrupt(p) ==
    [ ppu |-> [p EXCEPT !.nmi_interrupt = None], ret |-> p.nmi_interrupt ]

\* mutant: the write forgets that GENERATE_NMI must have been clear before
write_to_ctrl_no_edge(p, data) ==
    LET p1 == [p EXCEPT !.ctrl = data]
    IN  IF generate_nmi(p1.ctrl) /\ is_in_vertical_blank(p1.status)
        THEN [p1 EXCEPT !.nmi_interrupt = Some(1)]
        ELSE p1

\* mutant: the NMI is raised without looking at VERTICAL_BLANK
write_to_ctrl_any_scanline(p, data) ==
    LET pre_nmi_status == generate_nmi(p.ctrl)
        p1 == [p EXCEPT !.ctrl = data]
    IN  IF ~pre_nmi_status /\ generate_nmi(p1.ctrl)
        THEN [p1 EXCEPT !.nmi_interrupt = Some(1)]
        ELSE p1

write_to_ctrl(p, data) ==
    LET pre_nmi_status == generate_nmi(p.ctrl)
        p1 == [p EXCEPT !.ctrl = data]
    IN  IF ~pre_nmi_status /\ generate_nmi(p1.ctrl) /\ is_in_vertical_blank(p1.status)
        THEN [p1 EXCEPT !.nmi_interrupt = Some(1)]
        ELSE p1

write_to_mask(p, data) == [p EXCEPT !.mask = data]


\* AddrRegister (registers/addr.rs): the 14-bit PPUADDR double-write latch
AddrRegister_update(a, data) ==
    IF a.hi_ptr
    THEN [a EXCEPT !.hi = BitAnd(data, 63), !.hi_ptr = FALSE]
    ELSE [a EXCEPT !.lo = data, !.hi_ptr = TRUE]

AddrRegister_get(a) == a.hi * 256 + a.lo

AddrRegister_increment(a, inc) ==
    LET n == (AddrRegister_get(a) + inc) % 16384
    IN  [a EXCEPT !.hi = n \div 256, !.lo = n % 256]

AddrRegister_reset_latch(a) == [a EXCEPT !.hi_ptr = TRUE]

\* ScrollRegister (registers/scroll.rs): the PPUSCROLL double-write latch
ScrollRegister_write(s, data) ==
    IF ~s.latch
    THEN [s EXCEPT !.scroll_x = data, !.latch = TRUE]
    ELSE [s EXCEPT !.scroll_y = data, !.latch = FALSE]

ScrollRegister_reset_latch(s) == [s EXCEPT !.latch = FALSE]

\* the cartridge's CHR ROM: one 8 KiB page
CHR_ROM_PAGE_SIZE == 8192
chr_rom(i) == 1 + (i % 251)

VRAM_SIZE == 2048
PALETTE_SIZE == 32

\* mutant: the address always advances by one
increment_vram_addr_by_one(p) ==
    [p EXCEPT !.addr = AddrRegister_increment(@, 1)]

increment_vram_addr(p) ==
    [p EXCEPT !.addr = AddrRegister_increment(@, vram_addr_increment(p.ctrl))]

\* mutant: HORIZONTAL table 1 keeps its own kilobyte
mirror_vram_addr_table_1(p, addr) ==
    LET mirrored_vram == BitAnd(addr, 12287)
        vram_index == mirrored_vram - 8192
        name_table == vram_index \div 1024
    IN  CASE p.mirroring = "VERTICAL" /\ name_table \in {2, 3} -> vram_index - 2048
          [] p.mirroring = "HORIZONTAL" /\ name_table = 3 -> vram_index - 2048
          [] p.mirroring = "HORIZONTAL" /\ name_table = 2 -> vram_index - 1024
          [] OTHER -> vram_index

\* addr is in 0x2000..0x2FFF at both call sites
mirror_vram_addr(p, addr) ==
    LET mirrored_vram == BitAnd(addr, 12287)
        vram_index == mirrored_vram - 8192
        name_table == vram_index \div 1024
    IN  CASE p.mirroring = "VERTICAL" /\ name_table \in {2, 3} -> vram_index - 2048
          [] p.mirroring = "HORIZONTAL" /\ name_table = 3 -> vram_index - 2048
          [] p.mirroring = "HORIZONTAL" /\ name_table = 2 -> vram_index - 1024
          [] p.mirroring = "HORIZONTAL" /\ name_table = 1 -> vram_index - 1024
          [] OTHER -> vram_index

IsPaletteAlias(addr) == addr \in {16144, 16148, 16152, 16156}

Panic(p) == [ppu |-> p, ret |-> 0, ok |-> FALSE]

\* mutant: pattern-table and nametable reads return the addressed byte at once
read_data_unbuffered(p) ==
    LET addr == AddrRegister_get(p.addr)
        p1 == increment_vram_addr(p)
    IN  CASE addr <= 8191 ->
               IF addr < CHR_ROM_PAGE_SIZE
               THEN [ ppu |-> [p1 EXCEPT !.internal_data_buffer = chr_rom(addr)],
                      ret |-> chr_rom(addr), ok |-> TRUE ]
               ELSE Panic(p1)
          [] addr >= 8192 /\ addr <= 12287 ->
               LET i == mirror_vram_addr(p1, addr) IN
               IF i < VRAM_SIZE
               THEN [ ppu |-> [p1 EXCEPT !.internal_data_buffer = Load(p1.vram, i)],
                      ret |-> Load(p1.vram, i), ok |-> TRUE ]
               ELSE Panic(p1)
          [] addr >= 12288 /\ addr <= 16127 -> Panic(p1)
          [] IsPaletteAlias(addr) ->
               LET add_mirror == addr - 16
                   i == BitAnd(add_mirror, 16128)
               IN  IF i < PALETTE_SIZE
                   THEN [ppu |-> p1, ret |-> Load(p1.palette_table, i), ok |-> TRUE]
                   ELSE Panic(p1)
          [] OTHER ->
               [ppu |-> p1, ret |-> Load(p1.palette_table, BitAnd(addr, 31)), ok |-> TRUE]

\* read_data returns the PPU after the call, the byte returned, and ok = FALSE
\* when the call panics (an unusable address or an index out of bounds)
read_data(p) ==
    LET addr == AddrRegister_get(p.addr)
        p1 == increment_vram_addr(p)
    IN  CASE addr <= 8191 ->
               IF addr < CHR_ROM_PAGE_SIZE
               THEN [ ppu |-> [p1 EXCEPT !.internal_data_buffer = chr_rom(addr)],
                      ret |-> p1.internal_data_buffer, ok |-> TRUE ]
               ELSE Panic(p1)
          [] addr >= 8192 /\ addr <= 12287 ->
               LET i == mirror_vram_addr(p1, addr) IN
               IF i < VRAM_SIZE
               THEN [ ppu |-> [p1 EXCEPT !.internal_data_buffer = Load(p1.vram, i)],
                      ret |-> p1.internal_data_buffer, ok |-> TRUE ]
               ELSE Panic(p1)
          [] addr >= 12288 /\ addr <= 16127 -> Panic(p1)
          [] IsPaletteAlias(addr) ->
               LET add_mirror == addr - 16
                   i == BitAnd(add_mirror, 16128)
               IN  IF i < PALETTE_SIZE
                   THEN [ppu |-> p1, ret |-> Load(p1.palette_table, i), ok |-> TRUE]
                   ELSE Panic(p1)
          [] OTHER ->
               [ppu |-> p1, ret |-> Load(p1.palette_table, BitAnd(addr, 31)), ok |-> TRUE]

\* write_to_data returns the PPU after the call and ok = FALSE when it panics
write_to_data(p, data) ==
    LET addr == AddrRegister_get(p.addr) IN
    CASE addr <= 8191 -> [ppu |-> increment_vram_addr(p), ret |-> 0, ok |-> TRUE]
      [] addr >= 8192 /\ addr <= 12287 ->
           LET i == mirror_vram_addr(p, addr) IN
           IF i < VRAM_SIZE
           THEN [ ppu |-> increment_vram_addr([p EXCEPT !.vram = Store(@, i, data)]),
                  ret |-> 0, ok |-> TRUE ]
           ELSE Panic(p)
      [] addr >= 12288 /\ addr <= 16127 -> Panic(p)
      [] OTHER ->
           LET i == IF IsPaletteAlias(addr) THEN (addr - 16) - 16128 ELSE addr - 16128 IN
           IF i < PALETTE_SIZE
           THEN [ ppu |-> increment_vram_addr(
                              [p EXCEPT !.palette_table = Store(@, i, data)]),
                  ret |-> 0, ok |-> TRUE ]
           ELSE Panic(p)

write_to_ppu_addr(p, data) == [p EXCEPT !.addr = AddrRegister_update(@, data)]

write_to_scroll(p, data) == [p EXCEPT !.scroll = ScrollRegister_write(@, data)]

\* read_status returns the PPU after the call and the byte returned
\* mutant: the read forgets the PPUSCROLL latch
read_status_keeps_scroll_latch(p) ==
    [ ppu |-> [p EXCEPT !.status = reset_vertical_blank(@),
                        !.addr = AddrRegister_reset_latch(@)],
      ret |-> p.status ]

\* mutant: the byte returned is read after VERTICAL_BLANK is cleared
read_status_returns_cleared(p) ==
    [ ppu |-> [p EXCEPT !.status = reset_vertical_blank(@),
                        !.addr = AddrRegister_reset_latch(@),
                        !.scroll = ScrollRegister_reset_latch(@)],
      ret |-> reset_vertical_blank(p.status) ]

read_status(p) ==
    [ ppu |-> [p EXCEPT !.status = reset_vertical_blank(@),
                        !.addr = AddrRegister_reset_latch(@),
                        !.scroll = ScrollRegister_reset_latch(@)],
      ret |-> p.status ]

write_to_oam_addr(p, data) == [p EXCEPT !.oam_addr = data]

\* mutant: the cursor is incremented without wrapping
write_to_oam_data_no_wrap(p, data) ==
    [p EXCEPT !.oam_data = Store(@, p.oam_addr, data),
              !.oam_addr = p.oam_addr + 1]

write_to_oam_data(p, data) ==
    [p EXCEPT !.oam_data = Store(@, p.oam_addr, data),
              !.oam_addr = WrapAdd8(p.oam_addr, 1)]

read_oam_data(p) == Load(p.oam_data, p.oam_addr)

---------------------------------------------------------------------------
(* Bus                                                                     *)

\* one iteration of the loop of write_to_oam_dma
oam_dma_step(p, x) ==
    [p EXCEPT !.oam_data = Store(@, p.oam_addr, x),
              !.oam_addr = WrapAdd8(@, 1)]

\* the iterations lo .. hi-1 of the loop, in order; q is the PPU after the
\* first half of them, a value before the second half starts
RECURSIVE oam_dma_loop(_, _, _, _)
oam_dma_loop(p, data, lo, hi) ==
    IF hi = lo + 1 THEN oam_dma_step(p, data[lo])
    ELSE CHOOSE r \in { oam_dma_loop(q, data, (lo + hi) \div 2, hi) :
                        q \in {oam_dma_loop(p, data, lo, (lo + hi) \div 2)} } : TRUE

\* mutant: the copy starts at OAM cell 0 instead of oam_addr
write_to_oam_dma_from_zero(p, data) ==
    oam_dma_loop([p EXCEPT !.oam_addr = 0], data, 0, 256)

\* write_to_oam_dma copies the 256 bytes of data (a function on 0..255) into
\* OAM, starting at oam_addr and wrapping
write_to_oam_dma(p, data) == oam_dma_loop(p, data, 0, 256)

Joypad_new == [strobe |-> FALSE, button_index |-> 0, button_status |-> 0]

\* mutant: every write restarts the report
Joypad_write_always_resets(j, value) ==
    [j EXCEPT !.strobe = BitAnd(value, 1) = 1, !.button_index = 0]

\* mutant: a strobe write forgets the buttons held
Joypad_write_forgets_buttons(j, value) ==
    [j EXCEPT !.strobe = BitAnd(value, 1) = 1,
              !.button_index = IF BitAnd(value, 1) = 1 THEN 0 ELSE @,
              !.button_status = IF BitAnd(value, 1) = 1 THEN 0 ELSE @]

Joypad_write(j, value) ==
    LET strobe == BitAnd(value, 1) = 1
    IN  [j EXCEPT !.strobe = strobe,
                  !.button_index = IF strobe THEN 0 ELSE @]

\* mutant: a read after the eighth returns 0
Joypad_read_then_zero(j) ==
    IF j.button_index > 7
    THEN [joypad |-> j, ret |-> 0]
    ELSE [ joypad |-> [j EXCEPT !.button_index = IF ~j.strobe THEN @ + 1 ELSE @],
           ret |-> (j.button_status \div (2 ^ j.button_index)) % 2 ]

\* mutant: the report stops after nine buttons
Joypad_read_nine(j) ==
    IF j.button_index > 8
    THEN [joypad |-> j, ret |-> 1]
    ELSE [ joypad |-> [j EXCEPT !.button_index = IF ~j.strobe THEN @ + 1 ELSE @],
           ret |-> (j.button_status \div (2 ^ j.button_index)) % 2 ]

Joypad_read(j) ==
    IF j.button_index > 7
    THEN [joypad |-> j, ret |-> 1]
    ELSE [ joypad |-> [j EXCEPT !.button_index = IF ~j.strobe THEN @ + 1 ELSE @],
           ret |-> (j.button_status \div (2 ^ j.button_index)) % 2 ]

Joypad_press(j, button) == [j EXCEPT !.button_status = Insert(@, button)]

Joypad_release(j, button) == [j EXCEPT !.button_status = Remove(@, button)]

\* JoypadButton: A, B, SELECT, START, UP, DOWN, LEFT, RIGHT
JoypadButton == <<1, 2, 4, 8, 16, 32, 64, 128>>

\* the cartridge of the unit tests: every PRG byte is 1
test_rom == [main |-> "test_rom", handler |-> "none", setup |-> "none"]

Bus_new(rom) ==
    [ cpu_vram |-> EmptyMem,
      rom |-> rom,
      cycles |-> 0,
      joypad1 |-> Joypad_new,
      callbacks |-> 0 ]      \* how many times game_loop_callback has been called

\* mutant: the callback is called on every tick
Bus_tick_callback_always(b, p, cycles) ==
    LET t == NesPPU_tick(p, (cycles * 3) % 256)
    IN  [ bus |-> [b EXCEPT !.cycles = @ + cycles, !.callbacks = @ + 1],
          ppu |-> t.ppu,
          new_frame |-> t.ret ]

\* mutant: the PPU is given one dot per CPU cycle
Bus_tick_one_dot(b, p, cycles) ==
    LET t == NesPPU_tick(p, cycles % 256)
        new_frame == t.ret
    IN  [ bus |-> [b EXCEPT !.cycles = @ + cycles,
                            !.callbacks = IF new_frame THEN @ + 1 ELSE @],
          ppu |-> t.ppu,
          new_frame |-> new_frame ]

\* Bus::tick on the bus b and its PPU p; cycles * 3 is a u8 product
Bus_tick(b, p, cycles) ==
    LET t == NesPPU_tick(p, (cycles * 3) % 256)
        new_frame == t.ret
    IN  [ bus |-> [b EXCEPT !.cycles = @ + cycles,
                            !.callbacks = IF new_frame THEN @ + 1 ELSE @],
          ppu |-> t.ppu,
          new_frame |-> new_frame ]

Bus_poll_nmi_status(p) == poll_nmi_interrupt(p)

---------------------------------------------------------------------------
(* The PPU clock driven through the bus: Bus::tick with the cycle counts   *)
(* the CPU passes, interleaved with the register accesses that read or     *)
(* change what tick reads.                                                 *)

MaxBusCycles == 29800
TickCycles == {4, 8}
CtrlBytes == {0, 128}
MaskBytes == {0, 16}

CPU_idle == [register_a |-> 0]

\* what the claims about one operation compare its result with
Before(p) == [status |-> p.status, ctrl |-> p.ctrl, nmi_interrupt |-> p.nmi_interrupt]

InitTick ==
    /\ ppu = NesPPU_new("HORIZONTAL")
    /\ bus = Bus_new(test_rom)
    /\ cpu = CPU_idle
    /\ loop_pc = "none"
    /\ fatal = FALSE
    /\ op = "new"
    /\ arg = 0
    /\ ret = 0
    /\ hist = Before(ppu)

TickOp ==
    \E n \in TickCycles :
        /\ bus.cycles + n <= MaxBusCycles
        /\ LET t == Bus_tick(bus, ppu, n) IN
            /\ ppu' = t.ppu
            /\ bus' = t.bus
            /\ op' = "tick" /\ arg' = n /\ ret' = t.new_frame
        /\ hist' = Before(ppu)
        /\ UNCHANGED <<cpu, loop_pc, fatal>>

WriteCtrlOp ==
    \E d \in CtrlBytes :
        /\ ppu' = write_to_ctrl(ppu, d)
        /\ op' = "write_to_ctrl" /\ arg' = d /\ ret' = 0
        /\ hist' = Before(ppu)
        /\ UNCHANGED <<bus, cpu, loop_pc, fatal>>

WriteMaskOp ==
    \E d \in MaskBytes :
        /\ ppu' = write_to_mask(ppu, d)
        /\ op' = "write_to_mask" /\ arg' = d /\ ret' = 0
        /\ hist' = Before(ppu)
        /\ UNCHANGED <<bus, cpu, loop_pc, fatal>>

ReadStatusOp ==
    /\ LET r == read_status(ppu) IN
        /\ ppu' = r.ppu
        /\ op' = "read_status" /\ arg' = 0 /\ ret' = r.ret
    /\ hist' = Before(ppu)
        /\ UNCHANGED <<bus, cpu, loop_pc, fatal>>

PollNmiOp ==
    /\ LET r == Bus_poll_nmi_status(ppu) IN
        /\ ppu' = r.ppu
        /\ op' = "poll_nmi_status" /\ arg' = 0 /\ ret' = r.ret
    /\ hist' = Before(ppu)
        /\ UNCHANGED <<bus, cpu, loop_pc, fatal>>

NextTick == TickOp \/ WriteCtrlOp \/ WriteMaskOp \/ ReadStatusOp \/ PollNmiOp

SpecTick == InitTick /\ [][NextTick]_vars

\* the dot position of the PPU inside its frame
DotsPerFrame == ScanlinesPerFrame * DotsPerScanline
Pos(p) == p.scanline * DotsPerScanline + p.cycles

\* the last operation was a tick that moved the PPU onto a new scanline
TickedOntoScanline == op = "tick" /\ ppu.cycles < 3 * arg

(* C3: NesPPU::tick returns true exactly on the tick that would move        *)
(* scanline to 262; that tick leaves scanline 0 and nmi_interrupt,          *)
(* SPRITE_ZERO_HIT and VERTICAL_BLANK cleared; every other tick returns     *)
(* false.                                                                   *)
C3_FrameComplete ==
    [][ op' = "tick" =>
          LET reaches262 == /\ ppu.cycles + 3 * arg' >= DotsPerScanline
                            /\ ppu.scanline + 1 = ScanlinesPerFrame
          IN  /\ ret' = reaches262
              /\ reaches262 =>
                   /\ ppu'.scanline = 0
                   /\ ppu'.nmi_interrupt = None
                   /\ ~Contains(ppu'.status, SPRITE_ZERO_HIT)
                   /\ ~Contains(ppu'.status, VERTICAL_BLANK) ]_vars

\* a frame-completing tick that found an NMI pending and VERTICAL_BLANK set
C3_Witness ==
    /\ op = "tick" /\ ret = TRUE
    /\ hist.nmi_interrupt = Some(1)
    /\ Contains(hist.status, VERTICAL_BLANK)
    /\ ppu.scanline = 0 /\ ppu.nmi_interrupt = None /\ ppu.status = 0

(* C4: the tick that moves scanline to 241 sets VERTICAL_BLANK, clears      *)
(* SPRITE_ZERO_HIT and leaves an NMI pending iff ctrl.GENERATE_NMI is set;  *)
(* no other tick sets VERTICAL_BLANK.                                       *)
C4_VBlankStart ==
    [][ op' = "tick" =>
          LET reaches241 == /\ ppu.cycles + 3 * arg' >= DotsPerScanline
                            /\ ppu.scanline + 1 = VBlankScanline
          IN  /\ reaches241 =>
                   /\ Contains(ppu'.status, VERTICAL_BLANK)
                   /\ ~Contains(ppu'.status, SPRITE_ZERO_HIT)
                   /\ (ppu'.nmi_interrupt = Some(1)) <=> generate_nmi(ppu.ctrl)
              /\ ~reaches241 =>
                   (Contains(ppu'.status, VERTICAL_BLANK)
                       => Contains(ppu.status, VERTICAL_BLANK)) ]_vars

\* the tick onto scanline 241 with NMI generation on and sprite 0 hit before
C4_Witness ==
    /\ TickedOntoScanline /\ ppu.scanline = VBlankScanline
    /\ Contains(hist.status, SPRITE_ZERO_HIT)
    /\ ~Contains(hist.status, VERTICAL_BLANK)
    /\ generate_nmi(hist.ctrl)
    /\ ppu.nmi_interrupt = Some(1)
    /\ ppu.status = VERTICAL_BLANK

(* C5: a PPUCTRL write raises the pending NMI iff GENERATE_NMI was clear,   *)
(* the written value sets it, and VERTICAL_BLANK is set; every other write  *)
(* leaves nmi_interrupt as it was.                                          *)
C5_CtrlWriteNmi ==
    [][ op' = "write_to_ctrl" =>
          LET raises == /\ ~generate_nmi(ppu.ctrl)
                        /\ Contains(arg', GENERATE_NMI)
                        /\ Contains(ppu.status, VERTICAL_BLANK)
          IN  /\ raises => ppu'.nmi_interrupt = Some(1)
              /\ ~raises => ppu'.nmi_interrupt = ppu.nmi_interrupt ]_vars

\* a PPUCTRL write that raised an NMI which was not pending before
C5_Witness ==
    /\ op = "write_to_ctrl"
    /\ hist.nmi_interrupt = None
    /\ ~generate_nmi(hist.ctrl)
    /\ Contains(hist.status, VERTICAL_BLANK)
    /\ ppu.nmi_interrupt = Some(1)

(* C6: Bus::tick(n) advances the PPU by exactly 3n dots and calls the frame *)
(* callback once for each PPU tick that returns true, and at no other time. *)
C6_BusTick ==
    [][ /\ op' = "tick" =>
            /\ Pos(ppu') = (Pos(ppu) + 3 * arg') % DotsPerFrame
            /\ bus'.callbacks = bus.callbacks + (IF ret' THEN 1 ELSE 0)
        /\ bus'.callbacks # bus.callbacks => op' = "tick" /\ ret' = TRUE ]_vars

\* the frame callback has run, from the tick that completed the frame
C6_Witness == op = "tick" /\ ret = TRUE /\ bus.callbacks = 1 /\ Pos(ppu) < 3 * arg

(* C20: after every Bus.tick, 0 <= scanline <= 261 and 0 <= cycles <= 340,  *)
(* and the PPU position scanline*341 + cycles equals (3 * Bus.cycles) mod   *)
(* 89342.                                                                   *)
C20_NoDrift ==
    /\ ppu.scanline \in 0..261
    /\ ppu.cycles \in 0..340
    /\ ppu.scanline * 341 + ppu.cycles = (3 * bus.cycles) % 89342

\* the tick that completed the first frame, part of it spent in the next
C20_Witness ==
    /\ op = "tick" /\ ret = TRUE
    /\ ppu.scanline = 0 /\ ppu.cycles > 0
    /\ 3 * bus.cycles = 89342 + ppu.cycles

---------------------------------------------------------------------------
(* The PPU register protocol: sequences of calls of the PPU trait, as the  *)
(* tests of ppu/mod.rs make them.                                          *)

MaxOps == 7
Mirrorings == {"HORIZONTAL", "VERTICAL"}
AddrBytes == {5, 32, 63}
ScrollBytes == {7}
DataBytes == {102}
IncBytes == {4}

\* What the claims about a sequence of calls remember of its earlier calls,
\* updated by call o with argument a made in PPU state p:
\*   steps        calls made so far
\*   addr_fresh   no PPUADDR write since the last PPUSTATUS read
\*   addr_odd     that read found the PPUADDR latch expecting the low byte
\*   scroll_fresh, scroll_odd   the same for PPUSCROLL
\*   first_after  the last call was the first PPUADDR / PPUSCROLL write
\*                after a PPUSTATUS read
\*   seq          1: hi written with the latch expecting it, 2: then lo,
\*                3: then one PPUDATA read, 4: then a second; 0 otherwise
\*   seq_hi, seq_lo   the two bytes written;  seq_buf   internal_data_buffer
\*                before the first read
Observe(h, o, a, p) ==
    LET hiWrite == o = "write_to_ppu_addr" /\ p.addr.hi_ptr
        loWrite == o = "write_to_ppu_addr" /\ ~p.addr.hi_ptr /\ h.seq = 1
        read == o = "read_data" /\ h.seq \in {2, 3}
        firstAddr == o = "write_to_ppu_addr" /\ h.addr_fresh
        firstScroll == o = "write_to_scroll" /\ h.scroll_fresh
    IN  [ steps |-> h.steps + 1,
          addr_fresh |-> CASE o = "read_status" -> TRUE
                           [] o = "write_to_ppu_addr" -> FALSE
                           [] OTHER -> h.addr_fresh,
          addr_odd |-> CASE o = "read_status" -> ~p.addr.hi_ptr
                         [] o = "write_to_ppu_addr" -> firstAddr /\ h.addr_odd
                         [] OTHER -> h.addr_odd,
          scroll_fresh |-> CASE o = "read_status" -> TRUE
                             [] o = "write_to_scroll" -> FALSE
                             [] OTHER -> h.scroll_fresh,
          scroll_odd |-> CASE o = "read_status" -> p.scroll.latch
                           [] o = "write_to_scroll" -> firstScroll /\ h.scroll_odd
                           [] OTHER -> h.scroll_odd,
          first_after |-> firstAddr \/ firstScroll,
          seq |-> CASE hiWrite -> 1
                    [] loWrite -> 2
                    [] read -> h.seq + 1
                    [] OTHER -> 0,
          seq_hi |-> CASE hiWrite -> a
                       [] loWrite \/ read -> h.seq_hi
                       [] OTHER -> 0,
          seq_lo |-> CASE loWrite -> a
                       [] read -> h.seq_lo
                       [] OTHER -> 0,
          seq_buf |-> CASE read /\ h.seq = 2 -> p.internal_data_buffer
                        [] read -> h.seq_buf
                        [] OTHER -> 0 ]

NoHistory ==
    [ steps |-> 0, addr_fresh |-> FALSE, addr_odd |-> FALSE,
      scroll_fresh |-> FALSE, scroll_odd |-> FALSE, first_after |-> FALSE,
      seq |-> 0, seq_hi |-> 0, seq_lo |-> 0, seq_buf |-> 0 ]

InitRegs ==
    /\ \E m \in Mirrorings : ppu = NesPPU_new(m)
    /\ bus = Bus_new(test_rom)
    /\ cpu = CPU_idle
    /\ loop_pc = "none"
    /\ fatal = FALSE
    /\ op = "new"
    /\ arg = 0
    /\ ret = 0
    /\ hist = NoHistory

\* a call o(a) that leaves the PPU as q and returns r
Call(o, a, q, r) ==
    /\ ppu' = q
    /\ op' = o /\ arg' = a /\ ret' = r
    /\ hist' = Observe(hist, o, a, ppu)
    /\ UNCHANGED <<bus, cpu, loop_pc, fatal>>

\* a call o(a) that may panic: res is [ppu, ret, ok]
CallOrPanic(o, a, res) ==
    /\ ppu' = res.ppu
    /\ op' = o /\ arg' = a /\ ret' = res.ret
    /\ fatal' = ~res.ok
    /\ hist' = Observe(hist, o, a, ppu)
    /\ UNCHANGED <<bus, cpu, loop_pc>>

CanCall == ~fatal /\ hist.steps < MaxOps

WriteAddr ==
    \E d \in AddrBytes :
        CanCall /\ Call("write_to_ppu_addr", d, write_to_ppu_addr(ppu, d), 0)

WriteScroll ==
    \E d \in ScrollBytes :
        CanCall /\ Call("write_to_scroll", d, write_to_scroll(ppu, d), 0)

ReadStatus ==
    CanCall /\ Call("read_status", 0, read_status(ppu).ppu, read_status(ppu).ret)

ReadData == CanCall /\ CallOrPanic("read_data", 0, read_data(ppu))

WriteData ==
    \E d \in DataBytes :
        CanCall /\ CallOrPanic("write_to_data", d, write_to_data(ppu, d))

WriteInc ==
    \E d \in IncBytes :
        CanCall /\ Call("write_to_ctrl", d, write_to_ctrl(ppu, d), 0)

NextRegs == WriteAddr \/ WriteScroll \/ ReadStatus \/ ReadData \/ WriteData \/ WriteInc

SpecRegs == InitRegs /\ [][NextRegs]_vars

(* C1: after a PPUSTATUS read, whatever the number of PPUADDR and PPUSCROLL *)
(* writes before it, the next PPUADDR write is taken as the high byte and   *)
(* the next PPUSCROLL write as scroll_x.                                    *)
C1_StatusResetsLatches ==
    [][ /\ (op' = "write_to_ppu_addr" /\ hist.addr_fresh) =>
              /\ ppu'.addr.hi = BitAnd(arg', 63)
              /\ ppu'.addr.lo = ppu.addr.lo
        /\ (op' = "write_to_scroll" /\ hist.scroll_fresh) =>
              /\ ppu'.scroll.scroll_x = arg'
              /\ ppu'.scroll.scroll_y = ppu.scroll.scroll_y ]_vars

\* a PPUSTATUS read found both latches expecting their second byte; since
\* then PPUADDR was written once (as the high byte) and PPUSCROLL was just
\* written for the first time (as scroll_x)
C1_Witness ==
    /\ op = "write_to_scroll" /\ hist.first_after /\ hist.scroll_odd
    /\ hist.addr_odd /\ ~hist.addr_fresh
    /\ ppu.addr.hi = 32 /\ ~ppu.addr.hi_ptr
    /\ ppu.scroll.scroll_x = arg /\ ppu.scroll.scroll_y = 0

\* the 14-bit address written by the two PPUADDR writes of the sequence
SeqAddr == BitAnd(hist.seq_hi, 63) * 256 + hist.seq_lo

\* the byte stored at PPU address a: pattern table, nametable, palette
PpuByteAt(p, a) ==
    CASE a <= 8191 -> chr_rom(a)
      [] a >= 8192 /\ a <= 12287 -> Load(p.vram, mirror_vram_addr(p, a))
      [] OTHER -> Load(p.palette_table, BitAnd(a, 31))

\* the two PPUDATA reads that follow PPUADDR writes hi, lo
TwoReads ==
    /\ hist.seq = 3 => ~fatal /\ ret = hist.seq_buf
    /\ hist.seq = 4 => ~fatal /\ ret = PpuByteAt(ppu, SeqAddr)

VramAddr(p) == AddrRegister_get(p.addr)
Step(p) == IF Contains(p.ctrl, VRAM_ADD_INC) THEN 32 ELSE 1

(* C13: every PPUDATA read and every PPUDATA write that returns advances    *)
(* the VRAM address by 32 when ctrl.VRAM_ADD_INC is set and by 1 otherwise  *)
(* (within the 14-bit address space); so the second of two consecutive      *)
(* reads returns the byte one step before the current address and buffers   *)
(* the byte at the current address.                                         *)
C13_AddressStep ==
    [][ (op' \in {"read_data", "write_to_data"} /\ ~fatal') =>
          /\ VramAddr(ppu') = (VramAddr(ppu) + Step(ppu)) % 16384
          /\ (/\ op = "read_data" /\ op' = "read_data"
              /\ VramAddr(ppu) >= Step(ppu) /\ VramAddr(ppu) <= 12287)
             => /\ ret' = PpuByteAt(ppu, VramAddr(ppu) - Step(ppu))
                /\ ppu'.internal_data_buffer = PpuByteAt(ppu, VramAddr(ppu)) ]_vars

\* step 32 selected, then PPUADDR hi, lo and two reads: the second returned
\* the byte at the address and buffered the byte 32 further on
C13_Witness ==
    /\ hist.seq = 4 /\ ~fatal /\ Step(ppu) = 32
    /\ VramAddr(ppu) = SeqAddr + 64
    /\ ret = chr_rom(SeqAddr)
    /\ ppu.internal_data_buffer = chr_rom(SeqAddr + 32)
    /\ ret # ppu.internal_data_buffer

---------------------------------------------------------------------------
(* OAMADDR / OAMDATA                                                       *)

OamAddrs == {16, 255}
OamBytes == {102, 119}

WriteOamAddr ==
    \E k \in OamAddrs :
        CanCall /\ Call("write_to_oam_addr", k, write_to_oam_addr(ppu, k), 0)

WriteOamData ==
    \E v \in OamBytes :
        CanCall /\ Call("write_to_oam_data", v, write_to_oam_data(ppu, v), 0)

ReadOamData == CanCall /\ Call("read_oam_data", 0, ppu, read_oam_data(ppu))

NextOam == WriteOamAddr \/ WriteOamData \/ ReadOamData

SpecOam == InitRegs /\ [][NextOam]_vars

(* C10: writing k to OAMADDR and then v to OAMDATA leaves oam_data[k] = v   *)
(* and oam_addr = (k + 1) mod 256; an OAMDATA read returns                  *)
(* oam_data[oam_addr] and leaves oam_addr (and OAM) unchanged.              *)
C10_OamData ==
    [][ /\ (op = "write_to_oam_addr" /\ op' = "write_to_oam_data") =>
              /\ Load(ppu'.oam_data, arg) = arg'
              /\ ppu'.oam_addr = (arg + 1) % 256
        /\ op' = "read_oam_data" =>
              /\ ret' = Load(ppu.oam_data, ppu.oam_addr)
              /\ ppu'.oam_addr = ppu.oam_addr
              /\ ppu'.oam_data = ppu.oam_data ]_vars

\* a byte written at OAMADDR 0xFF, where the cursor wrapped to 0, read back
\* after OAMADDR was set to 0xFF again
C10_Witness ==
    /\ op = "read_oam_data" /\ ret = 102
    /\ ppu.oam_addr = 255 /\ Load(ppu.oam_data, 255) = 102
    /\ Load(ppu.oam_data, 0) = 0

---------------------------------------------------------------------------
(* Cartridge PRG images.  A rom names a small program: main code at 0x8000, *)
(* an NMI handler at 0x9020, the NMI vector at 0xFFFA and the reset vector  *)
(* at 0xFFFC.                                                               *)

PRG_ROM_LEN == 32768
RESET_VECTOR == 65532
HandlerAt == 36896

\* LDX #1; TXS; SEC; CLI: the stack pointer about to wrap, carry set,
\* interrupts enabled
Setup(rom) == IF rom.setup = "wrap" THEN <<162, 1, 154, 56, 88>> ELSE <<>>

\* LDX #$80; LDY #0; and STX $2000 when the program enables NMI at once
Prefix(rom) ==
    Setup(rom) \o <<162, 128, 160, 0>>
               \o (IF rom.main = "enable" THEN <<142, 0, 32>> ELSE <<>>)

LoopAt(rom) == 32768 + Len(Prefix(rom))

\* loop: [STY $2000; STX $2000;] JMP loop
MainCode(rom) ==
    Prefix(rom)
       \o (IF rom.main = "toggle" THEN <<140, 0, 32, 142, 0, 32>> ELSE <<>>)
       \o <<76, LoopAt(rom) % 256, LoopAt(rom) \div 256>>

\* rti:    RTI
\* rearm:  STX $2000; RTI
\* toggle: STY $2000; STX $2000; RTI
\* ack:    LDA $2002; STY $2000; STX $2000; RTI
HandlerCode(rom) ==
    CASE rom.handler = "rti" -> <<64>>
      [] rom.handler = "rearm" -> <<142, 0, 32, 64>>
      [] rom.handler = "toggle" -> <<140, 0, 32, 142, 0, 32, 64>>
      [] rom.handler = "ack" -> <<173, 2, 32, 140, 0, 32, 142, 0, 32, 64>>

\* a program assembled at rom.org, an RTS at rom.sub, the reset vector
\* pointing at the program, BRK everywhere else
flow_prg_rom(rom, i) ==
    CASE i >= rom.org - 32768 /\ i < rom.org - 32768 + Len(rom.code) ->
             rom.code[i - (rom.org - 32768) + 1]
      [] i = rom.sub - 32768 -> 96
      [] i = 32764 -> rom.org % 256
      [] i = 32765 -> rom.org \div 256
      [] OTHER -> 0

prg_rom(rom, i) ==
    IF rom.main = "test_rom" THEN 1
    ELSE IF rom.main = "flow" THEN flow_prg_rom(rom, i)
    ELSE LET h == HandlerAt - 32768 IN
         CASE i < Len(MainCode(rom)) -> MainCode(rom)[i + 1]
           [] i >= h /\ i < h + Len(HandlerCode(rom)) -> HandlerCode(rom)[i - h + 1]
           [] i = 32762 -> HandlerAt % 256
           [] i = 32763 -> HandlerAt \div 256
           [] i = 32765 -> 128
           [] OTHER -> 0

---------------------------------------------------------------------------
(* The bus as the CPU sees it.  A machine m is the CPU with the bus and    *)
(* PPU it owns; m.ok is FALSE once a panic! has been reached.              *)

read_prg_rom(b, address) ==
    LET a == address - 32768
    IN  prg_rom(b.rom, IF PRG_ROM_LEN = 16384 THEN a % 16384 ELSE a)

\* mutant: a panic! that lets execution continue
bus_panic_continues(m) == m

\* panic!(..): execution ends here
bus_panic(m) == [m EXCEPT !.ok = FALSE]

\* the machine and the byte read after a PPU or joypad read that returned r
PpuRead(m, r) == [m |-> [m EXCEPT !.ppu = r.ppu], ret |-> r.ret]
PpuReadOrPanic(m, r) ==
    [m |-> [m EXCEPT !.ppu = r.ppu, !.ok = @ /\ r.ok], ret |-> r.ret]
JoypadRead(m, r) == [m |-> [m EXCEPT !.bus.joypad1 = r.joypad], ret |-> r.ret]

\* the RAM arms of mem_read and mem_write
ram_read(b, address) ==
    Load(b.cpu_vram, BitAnd(BitAnd(address, 2047), 2047))

\* mutant: the write is not mirrored down
ram_write_unmirrored(b, address, value) ==
    [b EXCEPT !.cpu_vram = Store(@, address, value)]

ram_write(b, address, value) ==
    [b EXCEPT !.cpu_vram = Store(@, BitAnd(address, 2047), value)]

RECURSIVE Bus_mem_read(_, _)
Bus_mem_read(m, address) ==
    IF address <= 8191
    THEN [m |-> m, ret |-> ram_read(m.bus, address)]
    ELSE IF address \in {8192, 8193, 8195, 8197, 8198, 16404}
    THEN [m |-> bus_panic(m), ret |-> 0]
    ELSE IF address = 8194
    THEN PpuRead(m, read_status(m.ppu))
    ELSE IF address = 8196
    THEN [m |-> m, ret |-> read_oam_data(m.ppu)]
    ELSE IF address = 8199
    THEN PpuReadOrPanic(m, read_data(m.ppu))
    ELSE IF address >= 16384 /\ address <= 16405
    THEN [m |-> m, ret |-> 0]
    ELSE IF address = 16406
    THEN JoypadRead(m, Joypad_read(m.bus.joypad1))
    ELSE IF address = 16407
    THEN [m |-> m, ret |-> 0]
    ELSE IF address >= 8200 /\ address <= 16383
    THEN Bus_mem_read(m, BitAnd(address, 8199))
    ELSE IF address >= 32768
    THEN [m |-> m, ret |-> read_prg_rom(m.bus, address)]
    ELSE [m |-> m, ret |-> 0]

\* mutant: a source byte that cannot be read is taken as 0
OamDma_reads_zero(m, reads) ==
    [m EXCEPT !.ppu = write_to_oam_dma(@, [i \in 0..255 |-> reads[i].ret])]

\* the 0x4014 arm once its 256 reads have returned: no page can be read
\* both without a panic and with a side effect
OamDma(m, reads) ==
    IF \E i \in 0..255 : ~reads[i].m.ok
    THEN bus_panic(m)
    ELSE [m EXCEPT !.ppu = write_to_oam_dma(@, [i \in 0..255 |-> reads[i].ret])]

RECURSIVE Bus_mem_write(_, _, _)
Bus_mem_write(m, address, value) ==
    IF address <= 8191
    THEN [m EXCEPT !.bus = ram_write(@, address, value)]
    ELSE IF address = 8192 THEN [m EXCEPT !.ppu = write_to_ctrl(@, value)]
    ELSE IF address = 8193 THEN [m EXCEPT !.ppu = write_to_mask(@, value)]
    ELSE IF address = 8194 THEN bus_panic(m)
    ELSE IF address = 8195 THEN [m EXCEPT !.ppu = write_to_oam_addr(@, value)]
    ELSE IF address = 8196 THEN [m EXCEPT !.ppu = write_to_oam_data(@, value)]
    ELSE IF address = 8197 THEN [m EXCEPT !.ppu = write_to_scroll(@, value)]
    ELSE IF address = 8198 THEN [m EXCEPT !.ppu = write_to_ppu_addr(@, value)]
    ELSE IF address = 8199
    THEN PpuReadOrPanic(m, write_to_data(m.ppu, value)).m
    ELSE IF (address >= 16384 /\ address <= 16403) \/ address = 16405 THEN m
    ELSE IF address = 16406
    THEN [m EXCEPT !.bus.joypad1 = Joypad_write(@, value)]
    ELSE IF address = 16407 THEN m
    ELSE IF address = 16404
    THEN OamDma(m, [i \in 0..255 |-> Bus_mem_read(m, value * 256 + i)])
    ELSE IF address >= 8200 /\ address <= 16383
    THEN Bus_mem_write(m, BitAnd(address, 8199), value)
    ELSE IF address >= 32768 THEN bus_panic(m)
    ELSE m

\* (high << 8) | low
Word(low, high) == [m |-> high.m, ret |-> high.ret * 256 + low.ret]

\* the second read of u16_mem_read, after the first has returned low
u16_mem_read_high(low, address) == Word(low, Bus_mem_read(low.m, address + 1))

u16_mem_read(m, address) == u16_mem_read_high(Bus_mem_read(m, address), address)

\* Bus::tick on the machine
Tick(m, cycles) ==
    LET t == Bus_tick(m.bus, m.ppu, cycles)
    IN  [m EXCEPT !.bus = t.bus, !.ppu = t.ppu]

---------------------------------------------------------------------------
(* CPU                                                                     *)

STACK == 256
STACK_START == 253

CARRY == 1
ZERO == 2
INTERRUPT_DISABLE == 4
DECIMAL == 8
BREAK == 16
BREAK2 == 32
OVERFLOW == 64
NEGATIVE == 128

CPU_new ==
    [ register_a |-> 0, register_x |-> 0, register_y |-> 0,
      status |-> 36, stack_pointer |-> STACK_START, program_counter |-> 0 ]

\* mutant: the pointer is decremented before the write
stack_push_u8_predecrement(m, value) ==
    LET m1 == [m EXCEPT !.cpu.stack_pointer = WrapSub8(@, 1)]
    IN  Bus_mem_write(m1, STACK + m1.cpu.stack_pointer, value)

stack_push_u8(m, value) ==
    LET m1 == Bus_mem_write(m, STACK + m.cpu.stack_pointer, value)
    IN  [m1 EXCEPT !.cpu.stack_pointer = WrapSub8(@, 1)]

stack_push_u16(m, value) ==
    LET lo == value % 256
        hi == value \div 256
    IN  stack_push_u8(stack_push_u8(m, hi), lo)

stack_pop_u8(m) ==
    LET m1 == [m EXCEPT !.cpu.stack_pointer = WrapAdd8(@, 1)]
    IN  Bus_mem_read(m1, STACK + m1.cpu.stack_pointer)

\* the second pop of stack_pop_u16, after the first has returned lo
stack_pop_u16_high(lo) == Word(lo, stack_pop_u8(lo.m))

stack_pop_u16(m) == stack_pop_u16_high(stack_pop_u8(m))

\* program_counter = v, the word just read
SetPc(v) == [v.m EXCEPT !.cpu.program_counter = v.ret]

reset(m) ==
    SetPc(u16_mem_read(
        [m EXCEPT !.cpu = [ register_a |-> 0, register_x |-> 0, register_y |-> 0,
                            status |-> 36, stack_pointer |-> STACK_START,
                            program_counter |-> m.cpu.program_counter ]],
        RESET_VECTOR))

update_zero_and_negative_flags(m, register_value) ==
    [m EXCEPT !.cpu.status =
        SetFlag(SetFlag(@, ZERO, register_value = 0),
                NEGATIVE, BitAnd(register_value, 128) # 0)]

NMI == [vector_addr |-> 65530, b_flag_mask |-> 32, cpu_cycles |-> 2]

\* mutant: the flags are pushed as PHP pushes them, with BREAK set
push_flags_with_break(m, i) ==
    stack_push_u8(m, Insert(Insert(m.cpu.status, BREAK), BREAK2))

\* interrupt, after the PC has been pushed: the copy of P goes on the stack
push_flags(m, i) ==
    stack_push_u8(m, SetFlag(SetFlag(m.cpu.status, BREAK, BitAnd(i.b_flag_mask, 16) # 0),
                             BREAK2, BitAnd(i.b_flag_mask, 32) # 0))

\* interrupt, after both pushes
enter_interrupt(m, i) ==
    SetPc(u16_mem_read(
        Tick([m EXCEPT !.cpu.status = Insert(@, INTERRUPT_DISABLE)], i.cpu_cycles),
        i.vector_addr))

interrupt(m, i) ==
    enter_interrupt(push_flags(stack_push_u16(m, m.cpu.program_counter), i), i)

\* the (address, page crossed) pair of the addressing modes used below
Address(a, crossed) == [m |-> a.m, ret |-> a.ret, crossed |-> crossed]

\* the zero-page cell next to low: the pointer wraps within page 0
zero_page_word_high(low, ptr) == Word(low, Bus_mem_read(low.m, (ptr + 1) % 256))

zero_page_word(m, ptr) == zero_page_word_high(Bus_mem_read(m, ptr), ptr)

page_crossed(addr1, addr2) == addr1 \div 256 # addr2 \div 256

\* zero_page_address.wrapping_add(register)
zero_page_indexed(b, index) ==
    [m |-> b.m, ret |-> (b.ret + index) % 256, crossed |-> FALSE]

\* absolute_address.wrapping_add(register as u16), page_crossed
indexed(b, index) ==
    [m |-> b.m, ret |-> (b.ret + index) % 65536,
     crossed |-> page_crossed(b.ret, (b.ret + index) % 65536)]

indirect_x(b, x) == Address(zero_page_word(b.m, (b.ret + x) % 256), FALSE)

indirect_y(b, y) == indexed(zero_page_word(b.m, b.ret), y)

get_actual_address(m, mode, addr) ==
    CASE mode = "ZeroPage" -> Address(Bus_mem_read(m, addr), FALSE)
      [] mode = "Absolute" -> Address(u16_mem_read(m, addr), FALSE)
      [] mode = "ZeroPageX" -> zero_page_indexed(Bus_mem_read(m, addr), m.cpu.register_x)
      [] mode = "ZeroPageY" -> zero_page_indexed(Bus_mem_read(m, addr), m.cpu.register_y)
      [] mode = "AbsoluteX" -> indexed(u16_mem_read(m, addr), m.cpu.register_x)
      [] mode = "AbsoluteY" -> indexed(u16_mem_read(m, addr), m.cpu.register_y)
      [] mode = "IndirectX" -> indirect_x(Bus_mem_read(m, addr), m.cpu.register_x)
      [] mode = "IndirectY" -> indirect_y(Bus_mem_read(m, addr), m.cpu.register_y)
      [] OTHER -> [m |-> bus_panic(m), ret |-> 0, crossed |-> FALSE]

get_operand_address(m, mode) ==
    IF mode = "Immediate"
    THEN [m |-> m, ret |-> m.cpu.program_counter, crossed |-> FALSE]
    ELSE get_actual_address(m, mode, m.cpu.program_counter)

\* the byte at the operand address a
Operand(a) == Address(Bus_mem_read(a.m, a.ret), a.crossed)

\* mutant: no cycle for a page crossing
PageCrossTick_never(m, crossed) == m

\* if pc { self.bus.tick(1) }
PageCrossTick(m, crossed) == IF crossed THEN Tick(m, 1) ELSE m

brk(m) == [m EXCEPT !.cpu.status = Insert(@, BREAK)]

cli(m) == [m EXCEPT !.cpu.status = Remove(@, INTERRUPT_DISABLE)]

sec(m) == [m EXCEPT !.cpu.status = Insert(@, CARRY)]

clc(m) == [m EXCEPT !.cpu.status = Remove(@, CARRY)]

\* add_to_reg_a once sum is known
add_sum(m, value, sum) ==
    update_zero_and_negative_flags(
        [m EXCEPT !.cpu.status =
                      SetFlag(SetFlag(@, CARRY, sum > 255), OVERFLOW,
                              BitAnd(BitAnd(BitXor(value, sum % 256),
                                            BitXor(sum % 256, m.cpu.register_a)), 128) # 0),
                  !.cpu.register_a = sum % 256],
        sum % 256)

\* mutant: the carry flag is not added in
add_to_reg_a_no_carry_in(m, value) == add_sum(m, value, m.cpu.register_a + value)

add_to_reg_a(m, value) ==
    add_sum(m, value, m.cpu.register_a + value + Count(Contains(m.cpu.status, CARRY)))

\* (value as i8).wrapping_neg() as u8
wrapping_neg(value) == (256 - value) % 256

\* mutant: the operand is negated, not complemented
sub_from_reg_a_negated(m, value) == add_to_reg_a(m, wrapping_neg(value))

sub_from_reg_a(m, value) == add_to_reg_a(m, WrapSub8(wrapping_neg(value), 1))

nop(m) == m

txs(m) == [m EXCEPT !.cpu.stack_pointer = m.cpu.register_x]

jmp(m, mode) ==
    CASE mode = "Absolute" -> SetPc(u16_mem_read(m, m.cpu.program_counter))

\* register_a = v, the byte just read
SetA(v) ==
    update_zero_and_negative_flags([v.m EXCEPT !.cpu.register_a = v.ret], v.ret)

SetX(v) ==
    update_zero_and_negative_flags([v.m EXCEPT !.cpu.register_x = v.ret], v.ret)

SetY(v) ==
    update_zero_and_negative_flags([v.m EXCEPT !.cpu.register_y = v.ret], v.ret)

\* the immediate arm of lda advances the PC itself
lda_immediate(v) ==
    update_zero_and_negative_flags(
        [v.m EXCEPT !.cpu.register_a = v.ret, !.cpu.program_counter = @ + 1], v.ret)

lda_operand(v) == PageCrossTick(SetA(v), v.crossed)

\* mutant: a bus cycle passes before the operand is read
lda_after_tick(m, mode) ==
    IF mode = "Immediate"
    THEN lda_immediate(Bus_mem_read(m, m.cpu.program_counter))
    ELSE lda_operand(Operand(get_operand_address(Tick(m, 1), mode)))

lda(m, mode) ==
    IF mode = "Immediate"
    THEN lda_immediate(Bus_mem_read(m, m.cpu.program_counter))
    ELSE lda_operand(Operand(get_operand_address(m, mode)))

ldx_operand(v) == PageCrossTick(SetX(v), v.crossed)

ldx(m, mode) == ldx_operand(Operand(get_operand_address(m, mode)))

ldy_operand(v) == PageCrossTick(SetY(v), v.crossed)

ldy(m, mode) == ldy_operand(Operand(get_operand_address(m, mode)))

stx_operand(a) == Bus_mem_write(a.m, a.ret, a.m.cpu.register_x)

stx(m, mode) == stx_operand(get_operand_address(m, mode))

sty_operand(a) == Bus_mem_write(a.m, a.ret, a.m.cpu.register_y)

sty(m, mode) == sty_operand(get_operand_address(m, mode))

\* status = f, the byte just popped, without BREAK and with BREAK2
pha(m) == stack_push_u8(m, m.cpu.register_a)

php(m) == stack_push_u8(m, Insert(Insert(m.cpu.status, BREAK), BREAK2))

pla(m) == SetA(stack_pop_u8(m))

\* mutant: the popped byte becomes P as it is
plp_flags_as_popped(f) == [f.m EXCEPT !.cpu.status = f.ret]

\* self.status = from_bits_truncate(popped); remove(BREAK); insert(BREAK2)
plp_flags(f) == [f.m EXCEPT !.cpu.status = Insert(Remove(f.ret, BREAK), BREAK2)]

plp(m) == plp_flags(stack_pop_u8(m))

rti_flags(f) == [f.m EXCEPT !.cpu.status = Insert(Remove(f.ret, BREAK), BREAK2)]

rti(m) == SetPc(stack_pop_u16(rti_flags(stack_pop_u8(m))))

\* the operand address a with the byte r read from it
CellOf(a, r) == [m |-> r.m, address |-> a.ret, value |-> r.ret, crossed |-> a.crossed]

Cell(a) == CellOf(a, Bus_mem_read(a.m, a.ret))

SetCarry(m, carry) == [m EXCEPT !.cpu.status = SetFlag(@, CARRY, carry)]

\* register_a = value, then update_zero_and_negative_flags(register_a)
LoadA(m, value) == update_zero_and_negative_flags([m EXCEPT !.cpu.register_a = value], value)

\* mem_write(address, value) and update_zero_and_negative_flags(value), in
\* either order
WriteBack(m, address, value) ==
    update_zero_and_negative_flags(Bus_mem_write(m, address, value), value)

sta_operand(a) == Bus_mem_write(a.m, a.ret, a.m.cpu.register_a)

sta(m, mode) == sta_operand(get_operand_address(m, mode))

adc_flags(m) == update_zero_and_negative_flags(m, m.cpu.register_a)

adc_cell(c) == PageCrossTick(adc_flags(add_to_reg_a(c.m, c.value)), c.crossed)

adc(m, mode) == adc_cell(Cell(get_operand_address(m, mode)))

sbc_cell(c) == PageCrossTick(sub_from_reg_a(c.m, c.value), c.crossed)

sbc(m, mode) == sbc_cell(Cell(get_operand_address(m, mode)))

and_cell(c) ==
    PageCrossTick(LoadA(c.m, BitAnd(c.m.cpu.register_a, c.value)), c.crossed)

and(m, mode) == and_cell(Cell(get_operand_address(m, mode)))

ora_cell(c) ==
    PageCrossTick(LoadA(c.m, BitOr(c.m.cpu.register_a, c.value)), c.crossed)

ora(m, mode) == ora_cell(Cell(get_operand_address(m, mode)))

eor_cell(c) ==
    PageCrossTick(LoadA(c.m, BitXor(c.m.cpu.register_a, c.value)), c.crossed)

eor(m, mode) == eor_cell(Cell(get_operand_address(m, mode)))

cmp_cell(c) ==
    PageCrossTick(
        update_zero_and_negative_flags(
            SetCarry(c.m, c.m.cpu.register_a >= c.value),
            WrapSub8(c.m.cpu.register_a, c.value)),
        c.crossed)

cmp(m, mode) == cmp_cell(Cell(get_operand_address(m, mode)))

dec_cell(c) == WriteBack(c.m, c.address, WrapSub8(c.value, 1))

dec(m, mode) == dec_cell(Cell(get_operand_address(m, mode)))

inc_cell(c) == WriteBack(c.m, c.address, WrapAdd8(c.value, 1))

inc(m, mode) == inc_cell(Cell(get_operand_address(m, mode)))

asl_accumulator(m) ==
    LoadA(SetCarry(m, m.cpu.register_a >= 128), (m.cpu.register_a * 2) % 256)

asl_memory(c) ==
    WriteBack(SetCarry(c.m, c.value >= 128), c.address, (c.value * 2) % 256)

asl(m, mode) ==
    IF mode = "Accumulator" THEN asl_accumulator(m)
    ELSE asl_memory(Cell(get_operand_address(m, mode)))

lsr_memory(c) ==
    WriteBack(SetCarry(c.m, c.value % 2 = 1), c.address, c.value \div 2)

lsr(m, mode) ==
    IF mode = "Accumulator"
    THEN LoadA(SetCarry(m, m.cpu.register_a % 2 = 1), m.cpu.register_a \div 2)
    ELSE lsr_memory(Cell(get_operand_address(m, mode)))

\* value <<= 1; value |= carry as u8
RolByte(value, carry) == ((value * 2) % 256) + Count(carry)

\* value >>= 1; value |= (carry as u8) << 7
RorByte(value, carry) == (value \div 2) + (128 * Count(carry))

rol_accumulator(m) ==
    LoadA(SetCarry(m, m.cpu.register_a >= 128),
          RolByte(m.cpu.register_a, Contains(m.cpu.status, CARRY)))

rol_memory(c) ==
    WriteBack(SetCarry(c.m, c.value >= 128), c.address,
              RolByte(c.value, Contains(c.m.cpu.status, CARRY)))

rol(m, mode) ==
    IF mode = "Accumulator" THEN rol_accumulator(m)
    ELSE rol_memory(Cell(get_operand_address(m, mode)))

ror_accumulator(m) ==
    LoadA(SetCarry(m, m.cpu.register_a % 2 = 1),
          RorByte(m.cpu.register_a, Contains(m.cpu.status, CARRY)))

ror_memory(c) ==
    WriteBack(SetCarry(c.m, c.value % 2 = 1), c.address,
              RorByte(c.value, Contains(c.m.cpu.status, CARRY)))

ror(m, mode) ==
    IF mode = "Accumulator" THEN ror_accumulator(m)
    ELSE ror_memory(Cell(get_operand_address(m, mode)))

\* dcp once result is known: the write, Z and N of A - result, CARRY
dcp_result(m, address, result) ==
    SetCarry(update_zero_and_negative_flags(Bus_mem_write(m, address, result),
                                            WrapSub8(m.cpu.register_a, result)),
             m.cpu.register_a >= result)

dcp_cell(c) == dcp_result(c.m, c.address, WrapSub8(c.value, 1))

dcp(m, mode) == dcp_cell(Cell(get_operand_address(m, mode)))

\* isb before its call of sbc: the write, Z and N of result, CARRY
isb_result(m, address, result) ==
    SetCarry(WriteBack(m, address, result), m.cpu.register_a >= result)

isb_cell(c) == isb_result(c.m, c.address, WrapAdd8(c.value, 1))

isb(m, mode) == sbc(isb_cell(Cell(get_operand_address(m, mode))), mode)

rla(m, mode) == and(rol(m, mode), mode)

rra(m, mode) == adc(ror(m, mode), mode)

slo(m, mode) == ora(asl(m, mode), mode)

sre(m, mode) == eor(lsr(m, mode), mode)

\* register & ((address >> 8) as u8 + 1), written to address
shx_operand(a) ==
    Bus_mem_write(a.m, a.ret, BitAnd(a.m.cpu.register_x, ((a.ret \div 256) + 1) % 256))

shx(m, mode) == shx_operand(get_operand_address(m, mode))

shy_operand(a) ==
    Bus_mem_write(a.m, a.ret, BitAnd(a.m.cpu.register_y, ((a.ret \div 256) + 1) % 256))

shy(m, mode) == shy_operand(get_operand_address(m, mode))

\* offset as i8 as u16
SignExtend(offset) == IF offset >= 128 THEN offset + 65280 ELSE offset

\* branch once jump_addr is known: the page-cross tick, then the jump
branch_to(m, jump_addr) ==
    [ (IF ((m.cpu.program_counter + 1) % 65536) \div 256 # jump_addr \div 256
       THEN Tick(m, 1) ELSE m)
      EXCEPT !.cpu.program_counter = jump_addr ]

\* branch once the offset byte r has been read
branch_offset(r) ==
    branch_to(r.m, (r.m.cpu.program_counter + 1 + SignExtend(r.ret)) % 65536)

branch(m, condition) ==
    IF condition
    THEN branch_offset(Bus_mem_read(Tick(m, 1), m.cpu.program_counter))
    ELSE m

bcc(m) == branch(m, ~Contains(m.cpu.status, CARRY))
bcs(m) == branch(m, Contains(m.cpu.status, CARRY))
beq(m) == branch(m, Contains(m.cpu.status, ZERO))
bne(m) == branch(m, ~Contains(m.cpu.status, ZERO))

\* jsr once the operand a has been read
jsr_push(a) ==
    [ stack_push_u16(a.m, a.m.cpu.program_counter + 2 - 1)
      EXCEPT !.cpu.program_counter = a.ret ]

jsr(m) == jsr_push(u16_mem_read(m, m.cpu.program_counter))

\* program_counter = v + 1, v the word just popped
rts_return(v) == [v.m EXCEPT !.cpu.program_counter = v.ret + 1]

rts(m) == rts_return(stack_pop_u16(m))

\* the entries of opcodes::CPU_OPS_CODES_MAP for the opcodes above
OpCode(code) ==
    CASE code = 0 -> [mnemonic |-> "brk", bytes |-> 1, cycles |-> 7, addr_mode |-> "NoneAddressing"]
      [] code = 1 -> [mnemonic |-> "ora", bytes |-> 2, cycles |-> 6, addr_mode |-> "IndirectX"]
      [] code = 5 -> [mnemonic |-> "ora", bytes |-> 2, cycles |-> 3, addr_mode |-> "ZeroPage"]
      [] code = 7 -> [mnemonic |-> "slo", bytes |-> 2, cycles |-> 5, addr_mode |-> "ZeroPage"]
      [] code = 8 -> [mnemonic |-> "php", bytes |-> 1, cycles |-> 3, addr_mode |-> "NoneAddressing"]
      [] code = 9 -> [mnemonic |-> "ora", bytes |-> 2, cycles |-> 2, addr_mode |-> "Immediate"]
      [] code = 13 -> [mnemonic |-> "ora", bytes |-> 3, cycles |-> 4, addr_mode |-> "Absolute"]
      [] code = 17 -> [mnemonic |-> "ora", bytes |-> 2, cycles |-> 5, addr_mode |-> "IndirectY"]
      [] code = 21 -> [mnemonic |-> "ora", bytes |-> 2, cycles |-> 4, addr_mode |-> "ZeroPageX"]
      [] code = 25 -> [mnemonic |-> "ora", bytes |-> 3, cycles |-> 4, addr_mode |-> "AbsoluteY"]
      [] code = 29 -> [mnemonic |-> "ora", bytes |-> 3, cycles |-> 4, addr_mode |-> "AbsoluteX"]
      [] code = 32 -> [mnemonic |-> "jsr", bytes |-> 3, cycles |-> 6, addr_mode |-> "NoneAddressing"]
      [] code = 33 -> [mnemonic |-> "and", bytes |-> 2, cycles |-> 6, addr_mode |-> "IndirectX"]
      [] code = 37 -> [mnemonic |-> "and", bytes |-> 2, cycles |-> 3, addr_mode |-> "ZeroPage"]
      [] code = 39 -> [mnemonic |-> "rla", bytes |-> 2, cycles |-> 5, addr_mode |-> "ZeroPage"]
      [] code = 40 -> [mnemonic |-> "plp", bytes |-> 1, cycles |-> 4, addr_mode |-> "NoneAddressing"]
      [] code = 41 -> [mnemonic |-> "and", bytes |-> 2, cycles |-> 2, addr_mode |-> "Immediate"]
      [] code = 45 -> [mnemonic |-> "and", bytes |-> 3, cycles |-> 4, addr_mode |-> "Absolute"]
      [] code = 49 -> [mnemonic |-> "and", bytes |-> 2, cycles |-> 5, addr_mode |-> "IndirectY"]
      [] code = 53 -> [mnemonic |-> "and", bytes |-> 2, cycles |-> 4, addr_mode |-> "ZeroPageX"]
      [] code = 56 -> [mnemonic |-> "sec", bytes |-> 1, cycles |-> 2, addr_mode |-> "NoneAddressing"]
      [] code = 57 -> [mnemonic |-> "and", bytes |-> 3, cycles |-> 4, addr_mode |-> "AbsoluteY"]
      [] code = 61 -> [mnemonic |-> "and", bytes |-> 3, cycles |-> 4, addr_mode |-> "AbsoluteX"]
      [] code = 64 -> [mnemonic |-> "rti", bytes |-> 1, cycles |-> 6, addr_mode |-> "NoneAddressing"]
      [] code = 65 -> [mnemonic |-> "eor", bytes |-> 2, cycles |-> 6, addr_mode |-> "IndirectX"]
      [] code = 69 -> [mnemonic |-> "eor", bytes |-> 2, cycles |-> 3, addr_mode |-> "ZeroPage"]
      [] code = 71 -> [mnemonic |-> "sre", bytes |-> 2, cycles |-> 5, addr_mode |-> "ZeroPage"]
      [] code = 72 -> [mnemonic |-> "pha", bytes |-> 1, cycles |-> 3, addr_mode |-> "NoneAddressing"]
      [] code = 73 -> [mnemonic |-> "eor", bytes |-> 2, cycles |-> 2, addr_mode |-> "Immediate"]
      [] code = 76 -> [mnemonic |-> "jmp", bytes |-> 3, cycles |-> 3, addr_mode |-> "Absolute"]
      [] code = 77 -> [mnemonic |-> "eor", bytes |-> 3, cycles |-> 4, addr_mode |-> "Absolute"]
      [] code = 81 -> [mnemonic |-> "eor", bytes |-> 2, cycles |-> 5, addr_mode |-> "IndirectY"]
      [] code = 85 -> [mnemonic |-> "eor", bytes |-> 2, cycles |-> 4, addr_mode |-> "ZeroPageX"]
      [] code = 88 -> [mnemonic |-> "cli", bytes |-> 1, cycles |-> 2, addr_mode |-> "NoneAddressing"]
      [] code = 89 -> [mnemonic |-> "eor", bytes |-> 3, cycles |-> 4, addr_mode |-> "AbsoluteY"]
      [] code = 93 -> [mnemonic |-> "eor", bytes |-> 3, cycles |-> 4, addr_mode |-> "AbsoluteX"]
      [] code = 96 -> [mnemonic |-> "rts", bytes |-> 1, cycles |-> 6, addr_mode |-> "NoneAddressing"]
      [] code = 97 -> [mnemonic |-> "adc", bytes |-> 2, cycles |-> 6, addr_mode |-> "IndirectX"]
      [] code = 101 -> [mnemonic |-> "adc", bytes |-> 2, cycles |-> 3, addr_mode |-> "ZeroPage"]
      [] code = 103 -> [mnemonic |-> "rra", bytes |-> 2, cycles |-> 5, addr_mode |-> "ZeroPage"]
      [] code = 104 -> [mnemonic |-> "pla", bytes |-> 1, cycles |-> 4, addr_mode |-> "NoneAddressing"]
      [] code = 105 -> [mnemonic |-> "adc", bytes |-> 2, cycles |-> 2, addr_mode |-> "Immediate"]
      [] code = 109 -> [mnemonic |-> "adc", bytes |-> 3, cycles |-> 4, addr_mode |-> "Absolute"]
      [] code = 113 -> [mnemonic |-> "adc", bytes |-> 2, cycles |-> 5, addr_mode |-> "IndirectY"]
      [] code = 117 -> [mnemonic |-> "adc", bytes |-> 2, cycles |-> 4, addr_mode |-> "ZeroPageX"]
      [] code = 121 -> [mnemonic |-> "adc", bytes |-> 3, cycles |-> 4, addr_mode |-> "AbsoluteY"]
      [] code = 125 -> [mnemonic |-> "adc", bytes |-> 3, cycles |-> 4, addr_mode |-> "AbsoluteX"]
      [] code = 129 -> [mnemonic |-> "sta", bytes |-> 2, cycles |-> 6, addr_mode |-> "IndirectX"]
      [] code = 132 -> [mnemonic |-> "sty", bytes |-> 2, cycles |-> 3, addr_mode |-> "ZeroPage"]
      [] code = 133 -> [mnemonic |-> "sta", bytes |-> 2, cycles |-> 3, addr_mode |-> "ZeroPage"]
      [] code = 134 -> [mnemonic |-> "stx", bytes |-> 2, cycles |-> 3, addr_mode |-> "ZeroPage"]
      [] code = 140 -> [mnemonic |-> "sty", bytes |-> 3, cycles |-> 4, addr_mode |-> "Absolute"]
      [] code = 141 -> [mnemonic |-> "sta", bytes |-> 3, cycles |-> 4, addr_mode |-> "Absolute"]
      [] code = 142 -> [mnemonic |-> "stx", bytes |-> 3, cycles |-> 4, addr_mode |-> "Absolute"]
      [] code = 144 -> [mnemonic |-> "bcc", bytes |-> 2, cycles |-> 2, addr_mode |-> "NoneAddressing"]
      [] code = 145 -> [mnemonic |-> "sta", bytes |-> 2, cycles |-> 6, addr_mode |-> "IndirectY"]
      [] code = 148 -> [mnemonic |-> "sty", bytes |-> 2, cycles |-> 4, addr_mode |-> "ZeroPageX"]
      [] code = 149 -> [mnemonic |-> "sta", bytes |-> 2, cycles |-> 4, addr_mode |-> "ZeroPageX"]
      [] code = 150 -> [mnemonic |-> "stx", bytes |-> 2, cycles |-> 4, addr_mode |-> "ZeroPageY"]
      [] code = 153 -> [mnemonic |-> "sta", bytes |-> 3, cycles |-> 5, addr_mode |-> "AbsoluteY"]
      [] code = 154 -> [mnemonic |-> "txs", bytes |-> 1, cycles |-> 2, addr_mode |-> "NoneAddressing"]
      [] code = 156 -> [mnemonic |-> "shy", bytes |-> 3, cycles |-> 5, addr_mode |-> "AbsoluteX"]
      [] code = 157 -> [mnemonic |-> "sta", bytes |-> 3, cycles |-> 5, addr_mode |-> "AbsoluteX"]
      [] code = 158 -> [mnemonic |-> "shx", bytes |-> 3, cycles |-> 5, addr_mode |-> "AbsoluteY"]
      [] code = 160 -> [mnemonic |-> "ldy", bytes |-> 2, cycles |-> 2, addr_mode |-> "Immediate"]
      [] code = 161 -> [mnemonic |-> "lda", bytes |-> 2, cycles |-> 6, addr_mode |-> "IndirectX"]
      [] code = 162 -> [mnemonic |-> "ldx", bytes |-> 2, cycles |-> 2, addr_mode |-> "Immediate"]
      [] code = 164 -> [mnemonic |-> "ldy", bytes |-> 2, cycles |-> 3, addr_mode |-> "ZeroPage"]
      [] code = 165 -> [mnemonic |-> "lda", bytes |-> 2, cycles |-> 3, addr_mode |-> "ZeroPage"]
      [] code = 166 -> [mnemonic |-> "ldx", bytes |-> 2, cycles |-> 3, addr_mode |-> "ZeroPage"]
      [] code = 169 -> [mnemonic |-> "lda", bytes |-> 2, cycles |-> 2, addr_mode |-> "Immediate"]
      [] code = 172 -> [mnemonic |-> "ldy", bytes |-> 3, cycles |-> 4, addr_mode |-> "Absolute"]
      [] code = 173 -> [mnemonic |-> "lda", bytes |-> 3, cycles |-> 4, addr_mode |-> "Absolute"]
      [] code = 174 -> [mnemonic |-> "ldx", bytes |-> 3, cycles |-> 4, addr_mode |-> "Absolute"]
      [] code = 176 -> [mnemonic |-> "bcs", bytes |-> 2, cycles |-> 2, addr_mode |-> "NoneAddressing"]
      [] code = 177 -> [mnemonic |-> "lda", bytes |-> 2, cycles |-> 5, addr_mode |-> "IndirectY"]
      [] code = 180 -> [mnemonic |-> "ldy", bytes |-> 2, cycles |-> 4, addr_mode |-> "ZeroPageX"]
      [] code = 181 -> [mnemonic |-> "lda", bytes |-> 2, cycles |-> 4, addr_mode |-> "ZeroPageX"]
      [] code = 182 -> [mnemonic |-> "ldx", bytes |-> 2, cycles |-> 4, addr_mode |-> "ZeroPageY"]
      [] code = 185 -> [mnemonic |-> "lda", bytes |-> 3, cycles |-> 4, addr_mode |-> "AbsoluteY"]
      [] code = 188 -> [mnemonic |-> "ldy", bytes |-> 3, cycles |-> 4, addr_mode |-> "AbsoluteX"]
      [] code = 189 -> [mnemonic |-> "lda", bytes |-> 3, cycles |-> 4, addr_mode |-> "AbsoluteX"]
      [] code = 190 -> [mnemonic |-> "ldx", bytes |-> 3, cycles |-> 4, addr_mode |-> "AbsoluteY"]
      [] code = 193 -> [mnemonic |-> "cmp", bytes |-> 2, cycles |-> 6, addr_mode |-> "IndirectX"]
      [] code = 197 -> [mnemonic |-> "cmp", bytes |-> 2, cycles |-> 3, addr_mode |-> "ZeroPage"]
      [] code = 199 -> [mnemonic |-> "dcp", bytes |-> 2, cycles |-> 5, addr_mode |-> "ZeroPage"]
      [] code = 201 -> [mnemonic |-> "cmp", bytes |-> 2, cycles |-> 2, addr_mode |-> "Immediate"]
      [] code = 205 -> [mnemonic |-> "cmp", bytes |-> 3, cycles |-> 4, addr_mode |-> "Absolute"]
      [] code = 208 -> [mnemonic |-> "bne", bytes |-> 2, cycles |-> 2, addr_mode |-> "NoneAddressing"]
      [] code = 209 -> [mnemonic |-> "cmp", bytes |-> 2, cycles |-> 5, addr_mode |-> "IndirectY"]
      [] code = 213 -> [mnemonic |-> "cmp", bytes |-> 2, cycles |-> 4, addr_mode |-> "ZeroPageX"]
      [] code = 217 -> [mnemonic |-> "cmp", bytes |-> 3, cycles |-> 4, addr_mode |-> "AbsoluteY"]
      [] code = 221 -> [mnemonic |-> "cmp", bytes |-> 3, cycles |-> 4, addr_mode |-> "AbsoluteX"]
      [] code = 225 -> [mnemonic |-> "sbc", bytes |-> 2, cycles |-> 6, addr_mode |-> "IndirectX"]
      [] code = 229 -> [mnemonic |-> "sbc", bytes |-> 2, cycles |-> 3, addr_mode |-> "ZeroPage"]
      [] code = 231 -> [mnemonic |-> "isb", bytes |-> 2, cycles |-> 5, addr_mode |-> "ZeroPage"]
      [] code = 233 -> [mnemonic |-> "sbc", bytes |-> 2, cycles |-> 2, addr_mode |-> "Immediate"]
      [] code = 234 -> [mnemonic |-> "nop", bytes |-> 1, cycles |-> 2, addr_mode |-> "NoneAddressing"]
      [] code = 237 -> [mnemonic |-> "sbc", bytes |-> 3, cycles |-> 4, addr_mode |-> "Absolute"]
      [] code = 240 -> [mnemonic |-> "beq", bytes |-> 2, cycles |-> 2, addr_mode |-> "NoneAddressing"]
      [] code = 241 -> [mnemonic |-> "sbc", bytes |-> 2, cycles |-> 5, addr_mode |-> "IndirectY"]
      [] code = 245 -> [mnemonic |-> "sbc", bytes |-> 2, cycles |-> 4, addr_mode |-> "ZeroPageX"]
      [] code = 249 -> [mnemonic |-> "sbc", bytes |-> 3, cycles |-> 4, addr_mode |-> "AbsoluteY"]
      [] code = 253 -> [mnemonic |-> "sbc", bytes |-> 3, cycles |-> 4, addr_mode |-> "AbsoluteX"]

OpCodes ==
    {0, 1, 5, 7, 8, 9, 13, 17, 21, 25, 29, 32, 33, 37, 39, 40,
     41, 45, 49, 53, 56, 57, 61, 64, 65, 69, 71, 72, 73, 76, 77, 81,
     85, 88, 89, 93, 96, 97, 101, 103, 104, 105, 109, 113, 117, 121, 125, 129,
     132, 133, 134, 140, 141, 142, 144, 145, 148, 149, 150, 153, 154, 156, 157, 158,
     160, 161, 162, 164, 165, 166, 169, 172, 173, 174, 176, 177, 180, 181, 182, 185,
     188, 189, 190, 193, 197, 199, 201, 205, 208, 209, 213, 217, 221, 225, 229, 231,
     233, 234, 237, 240, 241, 245, 249, 253}

\* the #[opcode(codes = [..])] attributes of cpu.rs in source order, each with
\* the name of the function it is attached to
Arms ==
    <<
       [name |-> "adc", codes |-> {105, 101, 117, 109, 125, 121, 97, 113}],
       [name |-> "and", codes |-> {41, 37, 53, 45, 61, 57, 33, 49}],
       [name |-> "asl", codes |-> {10, 6, 22, 14, 30}],
       [name |-> "bcc", codes |-> {144}],
       [name |-> "bcs", codes |-> {176}],
       [name |-> "beq", codes |-> {240}],
       [name |-> "bit", codes |-> {36, 44}],
       [name |-> "bmi", codes |-> {48}],
       [name |-> "bne", codes |-> {208}],
       [name |-> "bpl", codes |-> {16}],
       [name |-> "brk", codes |-> {0}],
       [name |-> "bvc", codes |-> {80}],
       [name |-> "bvs", codes |-> {112}],
       [name |-> "clc", codes |-> {24}],
       [name |-> "cld", codes |-> {216}],
       [name |-> "cli", codes |-> {88}],
       [name |-> "clv", codes |-> {184}],
       [name |-> "cmp", codes |-> {201, 197, 213, 205, 221, 217, 193, 209}],
       [name |-> "cpx", codes |-> {224, 228, 236}],
       [name |-> "cpy", codes |-> {192, 196, 204}],
       [name |-> "dec", codes |-> {198, 214, 206, 222}],
       [name |-> "dex", codes |-> {202}],
       [name |-> "dey", codes |-> {136}],
       [name |-> "eor", codes |-> {73, 69, 85, 77, 93, 89, 65, 81}],
       [name |-> "inc", codes |-> {230, 246, 238, 254}],
       [name |-> "inx", codes |-> {232}],
       [name |-> "iny", codes |-> {200}],
       [name |-> "jmp", codes |-> {76, 108}],
       [name |-> "jsr", codes |-> {32}],
       [name |-> "lda", codes |-> {169, 165, 181, 173, 189, 185, 161, 177}],
       [name |-> "ldx", codes |-> {162, 166, 182, 174, 190}],
       [name |-> "ldy", codes |-> {160, 164, 180, 172, 188}],
       [name |-> "lsr", codes |-> {74, 70, 86, 78, 94}],
       [name |-> "nop", codes |-> {234}],
       [name |-> "nop", codes |-> {128, 130, 137, 194, 226}],
       [name |-> "nop", codes |-> {2, 18, 34, 50, 66, 82, 98, 114, 146, 178, 210, 242}],
       [name |-> "nop", codes |-> {26, 58, 90, 122, 218, 250}],
       [name |-> "nop_read", codes |-> {4, 68, 100, 20, 52, 84, 116, 212, 244}],
       [name |-> "nop_read", codes |-> {12, 28, 60, 92, 124, 220, 252}],
       [name |-> "ora", codes |-> {9, 5, 21, 13, 29, 25, 1, 17}],
       [name |-> "pha", codes |-> {72}],
       [name |-> "php", codes |-> {8}],
       [name |-> "pla", codes |-> {104}],
       [name |-> "plp", codes |-> {40}],
       [name |-> "rol", codes |-> {42, 38, 54, 46, 62}],
       [name |-> "ror", codes |-> {106, 102, 118, 110, 126}],
       [name |-> "rti", codes |-> {64}],
       [name |-> "rts", codes |-> {96}],
       [name |-> "sbc", codes |-> {233, 229, 245, 237, 253, 249, 225, 241}],
       [name |-> "sbc", codes |-> {235}],
       [name |-> "sec", codes |-> {56}],
       [name |-> "sed", codes |-> {248}],
       [name |-> "sei", codes |-> {120}],
       [name |-> "sta", codes |-> {133, 149, 141, 157, 153, 129, 145}],
       [name |-> "stx", codes |-> {134, 150, 142}],
       [name |-> "sty", codes |-> {132, 148, 140}],
       [name |-> "tax", codes |-> {170}],
       [name |-> "tay", codes |-> {168}],
       [name |-> "tsx", codes |-> {186}],
       [name |-> "txa", codes |-> {138}],
       [name |-> "txs", codes |-> {154}],
       [name |-> "tya", codes |-> {152}],
       [name |-> "anc", codes |-> {11, 43}],
       [name |-> "sax", codes |-> {135, 151, 143, 131}],
       [name |-> "arr", codes |-> {107}],
       [name |-> "alr", codes |-> {75}],
       [name |-> "lxa", codes |-> {171}],
       [name |-> "ahx", codes |-> {147, 159}],
       [name |-> "axs", codes |-> {203}],
       [name |-> "dcp", codes |-> {199, 215, 207, 223, 219, 195, 211}],
       [name |-> "isb", codes |-> {231, 247, 239, 255, 251, 227, 243}],
       [name |-> "las", codes |-> {187}],
       [name |-> "lax", codes |-> {167, 183, 175, 191, 163, 179}],
       [name |-> "rla", codes |-> {39, 55, 47, 63, 59, 35, 51}],
       [name |-> "rra", codes |-> {103, 119, 111, 127, 123, 99, 115}],
       [name |-> "slo", codes |-> {7, 23, 15, 31, 27, 3, 19}],
       [name |-> "sre", codes |-> {71, 87, 79, 95, 91, 67, 83}],
       [name |-> "shx", codes |-> {158, 156}],
       [name |-> "shy", codes |-> {156}],
       [name |-> "xaa", codes |-> {139}],
       [name |-> "tas", codes |-> {155}]
    >>

\* match_all! writes one match arm per attribute, in this order: the first
\* arm that lists the code is taken
RECURSIVE FirstArm(_, _)
FirstArm(code, i) ==
    IF code \in Arms[i].codes THEN Arms[i].name ELSE FirstArm(code, i + 1)

\* the call self.name(..) of the arm
call(m, name, mode) ==
    CASE name = "brk" -> brk(m)
      [] name = "jsr" -> jsr(m)
      [] name = "sec" -> sec(m)
      [] name = "rti" -> rti(m)
      [] name = "jmp" -> jmp(m, mode)
      [] name = "cli" -> cli(m)
      [] name = "rts" -> rts(m)
      [] name = "sty" -> sty(m, mode)
      [] name = "stx" -> stx(m, mode)
      [] name = "bcc" -> bcc(m)
      [] name = "txs" -> txs(m)
      [] name = "shx" -> shx(m, mode)
      [] name = "shy" -> shy(m, mode)
      [] name = "ldy" -> ldy(m, mode)
      [] name = "ldx" -> ldx(m, mode)
      [] name = "lda" -> lda(m, mode)
      [] name = "bcs" -> bcs(m)
      [] name = "bne" -> bne(m)
      [] name = "nop" -> nop(m)
      [] name = "beq" -> beq(m)
      [] name = "sta" -> sta(m, mode)
      [] name = "pha" -> pha(m)
      [] name = "php" -> php(m)
      [] name = "pla" -> pla(m)
      [] name = "plp" -> plp(m)
      [] name = "adc" -> adc(m, mode)
      [] name = "sbc" -> sbc(m, mode)
      [] name = "and" -> and(m, mode)
      [] name = "ora" -> ora(m, mode)
      [] name = "eor" -> eor(m, mode)
      [] name = "cmp" -> cmp(m, mode)
      [] name = "dcp" -> dcp(m, mode)
      [] name = "isb" -> isb(m, mode)
      [] name = "rla" -> rla(m, mode)
      [] name = "rra" -> rra(m, mode)
      [] name = "slo" -> slo(m, mode)
      [] name = "sre" -> sre(m, mode)

\* match_all!(code): the handler whose #[opcode] attribute lists the code
match_all(m, code) == call(m, FirstArm(code, 1), OpCode(code).addr_mode)

---------------------------------------------------------------------------
(* CPU::run_with_callback, one action per step of the loop body, run on    *)
(* the PRG images above for a little more than one PPU frame.              *)

Roms ==
    [ main : {"enable", "toggle"},
      handler : {"rti", "rearm", "toggle", "ack"},
      setup : {"none", "wrap"} ]

\* the machine of the current state
Machine == [cpu |-> cpu, bus |-> bus, ppu |-> ppu, ok |-> ~fatal]

At(a, code, original_pc) == [at |-> a, code |-> code, original_pc |-> original_pc]

\* what the frame so far has seen: NMIs delivered, ticks onto scanline 241,
\* PPUCTRL writes that turned GENERATE_NMI on during vertical blank; and,
\* since power-on, the NMI tokens raised and delivered
NoNmi ==
    [ delivered |-> 0, raised |-> 0,
      frame_delivered |-> 0, frame_vblanks |-> 0, frame_edges |-> 0 ]

\* m is the machine after the step, taken is the PPU as the step's poll (if
\* any) left it, delivery tells whether the step delivered an NMI
Seen(m, taken, delivery) ==
    LET new_frame == m.bus.callbacks > bus.callbacks
        raised == taken.nmi_interrupt = None /\ m.ppu.nmi_interrupt # None
        vblank == ppu.scanline # VBlankScanline /\ m.ppu.scanline = VBlankScanline
        edge == /\ ~generate_nmi(ppu.ctrl) /\ generate_nmi(m.ppu.ctrl)
                /\ is_in_vertical_blank(ppu.status)
    IN  [ delivered |-> hist.delivered + Count(delivery),
          raised |-> hist.raised + Count(raised),
          frame_delivered |->
              IF new_frame THEN 0 ELSE hist.frame_delivered + Count(delivery),
          frame_vblanks |->
              IF new_frame THEN 0 ELSE hist.frame_vblanks + Count(vblank),
          frame_edges |->
              IF new_frame THEN 0 ELSE hist.frame_edges + Count(edge) ]

\* the state after a step that leaves the machine as m
Becomes(m, taken, delivery) ==
    /\ cpu' = m.cpu
    /\ bus' = m.bus
    /\ ppu' = m.ppu
    /\ fatal' = ~m.ok
    /\ hist' = Seen(m, taken, delivery)

InitRun ==
    /\ \E rom \in Roms : bus = Bus_new(rom)
    /\ ppu = NesPPU_new("VERTICAL")
    /\ cpu = CPU_new
    /\ loop_pc = At("reset", 0, 0)
    /\ fatal = FALSE
    /\ op = "new"
    /\ arg = 0
    /\ ret = 0
    /\ hist = NoNmi

Running == ~fatal /\ bus.cycles < MaxBusCycles

\* main: cpu.reset() before cpu.run()
Reset ==
    /\ loop_pc.at = "reset"
    /\ Becomes(reset(Machine), ppu, FALSE)
    /\ loop_pc' = At("top", 0, 0)
    /\ op' = "reset" /\ arg' = 0 /\ ret' = 0

\* the top of the loop with no NMI pending: poll, callback
PollNmi ==
    /\ Running /\ loop_pc.at = "top"
    /\ LET r == Bus_poll_nmi_status(ppu) IN
        /\ r.ret = None
        /\ Becomes([Machine EXCEPT !.ppu = r.ppu], r.ppu, FALSE)
    /\ loop_pc' = At("fetch", 0, 0)
    /\ op' = "poll" /\ arg' = 0 /\ ret' = 0

\* the top of the loop with an NMI pending: poll, interrupt, callback
Interrupt ==
    /\ Running /\ loop_pc.at = "top"
    /\ LET r == Bus_poll_nmi_status(ppu) IN
        /\ r.ret # None
        /\ Becomes(interrupt([Machine EXCEPT !.ppu = r.ppu], NMI), r.ppu, TRUE)
    /\ loop_pc' = At("fetch", 0, 0)
    /\ op' = "interrupt" /\ arg' = 0 /\ ret' = 0

\* the opcode byte r has been read: it is looked up and the PC advanced
Fetched(r) ==
    /\ Becomes([r.m EXCEPT !.cpu.program_counter = @ + 1,
                           !.ok = @ /\ r.ret \in OpCodes], ppu, FALSE)
    /\ loop_pc' = At("exec", r.ret, r.m.cpu.program_counter + 1)
    /\ op' = "fetch" /\ arg' = r.ret /\ ret' = 0

Fetch ==
    /\ Running /\ loop_pc.at = "fetch"
    /\ Fetched(Bus_mem_read(Machine, cpu.program_counter))

\* the handler has left the machine as m; a set BREAK flag leaves the loop
Executed(m) ==
    /\ Becomes(m, ppu, FALSE)
    /\ loop_pc' = At(IF Contains(m.cpu.status, BREAK) THEN "done" ELSE "tick",
                     loop_pc.code, loop_pc.original_pc)
    /\ op' = OpCode(loop_pc.code).mnemonic /\ arg' = loop_pc.code /\ ret' = 0

Execute ==
    /\ ~fatal /\ loop_pc.at = "exec"
    /\ Executed(match_all(Machine, loop_pc.code))

\* the PC fix-up on the machine m that bus.tick(opcode.cycles) has left
Retired(m, opcode) ==
    /\ Becomes(IF loop_pc.original_pc = m.cpu.program_counter
               THEN [m EXCEPT !.cpu.program_counter = @ + opcode.bytes - 1]
               ELSE m, ppu, FALSE)
    /\ op' = "tick" /\ arg' = opcode.cycles
    /\ ret' = (m.bus.callbacks > bus.callbacks)
    /\ loop_pc' = At("top", 0, 0)

\* the trailing bus.tick(opcode.cycles) and the PC fix-up
Retire ==
    /\ ~fatal /\ loop_pc.at = "tick"
    /\ Retired(Tick(Machine, OpCode(loop_pc.code).cycles), OpCode(loop_pc.code))

NextRun == Reset \/ PollNmi \/ Interrupt \/ Fetch \/ Execute \/ Retire

SpecRun == InitRun /\ [][NextRun]_vars

\* a step that delivers an NMI is taken at the top of an iteration and is
\* followed by the opcode fetch; a token pending at the top is delivered by
\* the step taken there; no token is delivered twice
DeliveredAtTop ==
    /\ op' = "interrupt" => loop_pc.at = "top" /\ loop_pc'.at = "fetch"
    /\ (loop_pc.at = "top" /\ ppu.nmi_interrupt # None /\ loop_pc' # loop_pc) =>
           op' = "interrupt"
    /\ hist'.delivered <= hist'.raised

\* a step drops the pending token undelivered
TokenDropped ==
    /\ ppu.nmi_interrupt # None /\ ppu'.nmi_interrupt = None
    /\ op' # "interrupt"

(* C7 as claimed: an NMI raised by the PPU is delivered at the top of the   *)
(* next run-loop iteration, before the opcode fetch and never between a     *)
(* fetch and its trailing bus.tick, and no token is delivered twice.        *)
C7_Original == [][DeliveredAtTop /\ ~TokenDropped]_vars

(* C7 as amended: the same for every token still pending at the top of the  *)
(* next iteration; the one way a raised token is lost is a bus.tick that    *)
(* completes the frame before that poll.                                    *)
C7_NmiAtTop ==
    [][ /\ DeliveredAtTop
        /\ TokenDropped => op' = "tick" /\ ret' = TRUE /\ ppu'.scanline = 0 ]_vars

\* an NMI raised by a PPUCTRL write inside the handler of the previous NMI
\* has just been delivered, at the top of the iteration after the write's
C7_Witness ==
    /\ op = "interrupt" /\ loop_pc.at = "fetch"
    /\ hist.delivered = 2 /\ hist.raised = 2
    /\ hist.frame_edges = 1 /\ ppu.nmi_interrupt = None

(* C8 as claimed: at most one NMI is delivered per PPU frame.               *)
C8_Original == [][op' = "interrupt" => hist.frame_delivered = 0]_vars

(* C8 as amended: the NMIs delivered in a frame number at most the ticks    *)
(* onto scanline 241 in that frame (at most one) plus the PPUCTRL writes    *)
(* that turned GENERATE_NMI on during vertical blank in that frame.         *)
C8_NmiPerFrame ==
    [][ /\ hist'.frame_vblanks <= 1
        /\ op' = "interrupt" =>
              hist.frame_delivered < hist.frame_vblanks + hist.frame_edges ]_vars

\* the NMI of scanline 241 was delivered, its handler rewrote PPUCTRL with
\* GENERATE_NMI still on, and the frame has run on to its last scanline
\* without another delivery
C8_Witness ==
    /\ bus.rom.handler = "rearm" /\ ppu.scanline = 261
    /\ hist.frame_delivered = 1 /\ hist.frame_vblanks = 1 /\ hist.frame_edges = 0

(* C9: delivering an NMI pushes PC high, PC low, then P with BREAK clear    *)
(* and BREAK2 set; sets INTERRUPT_DISABLE; leaves S decreased by 3 mod 256; *)
(* ticks the bus by 2 cycles; sets PC to the little-endian word at 0xFFFA;  *)
(* A, X, Y and the other flags of P are unchanged.                          *)
C9_NmiDelivery ==
    [][ op' = "interrupt" =>
          LET s == cpu.stack_pointer
              pc == cpu.program_counter
              stack(i) == Load(bus'.cpu_vram, STACK + ((s + 256 - i) % 256))
          IN  /\ stack(0) = pc \div 256
              /\ stack(1) = pc % 256
              /\ stack(2) = Insert(Remove(cpu.status, BREAK), BREAK2)
              /\ cpu'.status = Insert(cpu.status, INTERRUPT_DISABLE)
              /\ cpu'.stack_pointer = (s + 253) % 256
              /\ bus'.cycles = bus.cycles + 2
              /\ Pos(ppu') = (Pos(ppu) + 6) % DotsPerFrame
              /\ cpu'.program_counter =
                    read_prg_rom(bus, 65530) + 256 * read_prg_rom(bus, 65531)
              /\ cpu'.register_a = cpu.register_a
              /\ cpu'.register_x = cpu.register_x
              /\ cpu'.register_y = cpu.register_y ]_vars

\* an NMI was delivered with S = 0x01, so that the pushes wrapped the stack
\* pointer to 0xFE, carry and zero set and interrupts enabled until then
C9_Witness ==
    /\ op = "interrupt" /\ cpu.stack_pointer = 254
    /\ hist.delivered = 1
    /\ cpu.status = CARRY + ZERO + INTERRUPT_DISABLE + BREAK2
    /\ Load(bus.cpu_vram, STACK + 255) = CARRY + ZERO + BREAK2
    /\ Load(bus.cpu_vram, STACK + 1) = 128
    /\ cpu.program_counter = HandlerAt

---------------------------------------------------------------------------
(* OAM DMA: write_to_oam_dma applied to whole pages, from several cursors  *)

MaxDmaOps == 4
DmaAddrs == {0, 1, 128, 255}
DmaPages == {"up", "down"}

\* the 256 bytes of a page: 1, 2, .., 255, 0 or 255, 254, .., 0
DmaPage(name) ==
    IF name = "up" THEN [i \in 0..255 |-> (i + 1) % 256]
    ELSE [i \in 0..255 |-> 255 - i]

CanDma == ~fatal /\ hist.steps < MaxDmaOps

DmaOamAddr ==
    \E k \in DmaAddrs :
        CanDma /\ Call("write_to_oam_addr", k, write_to_oam_addr(ppu, k), 0)

WriteOamDma ==
    \E d \in DmaPages :
        CanDma /\ Call("write_to_oam_dma", d, write_to_oam_dma(ppu, DmaPage(d)), 0)

NextDma == DmaOamAddr \/ WriteOamDma

SpecDma == InitRegs /\ [][NextDma]_vars

(* C11: write_to_oam_dma called with oam_addr = k stores data[i] into       *)
(* oam_data[(k + i) mod 256] for every i in 0..255 and leaves oam_addr      *)
(* equal to k.                                                              *)
C11_OamDma ==
    [][ op' = "write_to_oam_dma" =>
          /\ \A i \in 0..255 :
                Load(ppu'.oam_data, (ppu.oam_addr + i) % 256) = DmaPage(arg')[i]
          /\ ppu'.oam_addr = ppu.oam_addr ]_vars

\* a page copied from cursor 128: its first byte is in cell 128 and its
\* last two bytes, past the wrap, in cells 126 and 127
C11_Witness ==
    /\ op = "write_to_oam_dma" /\ arg = "up" /\ ppu.oam_addr = 128
    /\ Load(ppu.oam_data, 128) = 1 /\ Load(ppu.oam_data, 255) = 128
    /\ Load(ppu.oam_data, 0) = 129
    /\ Load(ppu.oam_data, 126) = 255 /\ Load(ppu.oam_data, 127) = 0

---------------------------------------------------------------------------
(* PPUSTATUS reads met in every state of the status flags and of the       *)
(* pending NMI, with the VRAM address and the read buffer in use           *)

MaxStatusOps == 5
StatusBits == {0, SPRITE_ZERO_HIT, VERTICAL_BLANK, SPRITE_ZERO_HIT + VERTICAL_BLANK}
PendingNmi == {None, Some(1)}

\* a PPU some time after construction: the flags NesPPU::tick sets and the
\* token it or write_to_ctrl raised
InitStatus ==
    /\ \E m \in Mirrorings, s \in StatusBits, n \in PendingNmi :
          ppu = [NesPPU_new(m) EXCEPT !.status = s, !.nmi_interrupt = n]
    /\ bus = Bus_new(test_rom)
    /\ cpu = CPU_idle
    /\ loop_pc = "none"
    /\ fatal = FALSE
    /\ op = "new"
    /\ arg = 0
    /\ ret = 0
    /\ hist = NoHistory

CanStatus == ~fatal /\ hist.steps < MaxStatusOps

StatusWriteAddr ==
    \E d \in AddrBytes :
        CanStatus /\ Call("write_to_ppu_addr", d, write_to_ppu_addr(ppu, d), 0)

StatusReadData == CanStatus /\ CallOrPanic("read_data", 0, read_data(ppu))

StatusRead ==
    CanStatus /\ Call("read_status", 0, read_status(ppu).ppu, read_status(ppu).ret)

NextStatus == StatusWriteAddr \/ StatusReadData \/ StatusRead

SpecStatus == InitStatus /\ [][NextStatus]_vars

(* C12: a PPUSTATUS read returns the status bits as they were before the    *)
(* read, VERTICAL_BLANK included; afterwards VERTICAL_BLANK is clear while  *)
(* SPRITE_ZERO_HIT, SPRITE_OVERFLOW, the pending NMI, the VRAM address and  *)
(* the read buffer are unchanged.                                           *)
C12_StatusRead ==
    [][ op' = "read_status" =>
          /\ ret' = ppu.status
          /\ ~Contains(ppu'.status, VERTICAL_BLANK)
          /\ Contains(ppu'.status, SPRITE_ZERO_HIT) = Contains(ppu.status, SPRITE_ZERO_HIT)
          /\ Contains(ppu'.status, SPRITE_OVERFLOW) = Contains(ppu.status, SPRITE_OVERFLOW)
          /\ ppu'.nmi_interrupt = ppu.nmi_interrupt
          /\ AddrRegister_get(ppu'.addr) = AddrRegister_get(ppu.addr)
          /\ ppu'.internal_data_buffer = ppu.internal_data_buffer ]_vars

\* a read during vertical blank with sprite 0 hit, an NMI pending, the VRAM
\* address moved and the buffer loaded
C12_Witness ==
    /\ op = "read_status"
    /\ ret = SPRITE_ZERO_HIT + VERTICAL_BLANK
    /\ ppu.status = SPRITE_ZERO_HIT
    /\ ppu.nmi_interrupt = Some(1)
    /\ AddrRegister_get(ppu.addr) # 0
    /\ ppu.internal_data_buffer # 0

---------------------------------------------------------------------------
(* PPUDATA in the palette: the slots 0x3F00.. and their aliases 0x3F10..   *)

MaxPaletteOps == 6
PaletteAddrBytes == {0, 16, 63}

CanPalette == ~fatal /\ hist.steps < MaxPaletteOps

PaletteWriteAddr ==
    \E d \in PaletteAddrBytes :
        CanPalette /\ Call("write_to_ppu_addr", d, write_to_ppu_addr(ppu, d), 0)

PaletteReadData == CanPalette /\ CallOrPanic("read_data", 0, read_data(ppu))

PaletteWriteData ==
    \E d \in DataBytes :
        CanPalette /\ CallOrPanic("write_to_data", d, write_to_data(ppu, d))

NextPalette == PaletteWriteAddr \/ PaletteReadData \/ PaletteWriteData

SpecPalette == InitRegs /\ [][NextPalette]_vars

\* the palette slot behind a palette address below 0x3F20
PaletteSlot(a) == IF IsPaletteAlias(a) THEN a - 16144 ELSE a - 16128

(* C15: PPUDATA reads and writes at the palette aliases 0x3F10, 0x3F14,     *)
(* 0x3F18 and 0x3F1C are both redirected to palette slots 0x00, 0x04, 0x08  *)
(* and 0x0C: a write at an alias stores into the slot, and a read of the    *)
(* alias, like a read of the slot, returns what the slot holds.             *)
C15_PaletteAliases ==
    [][ /\ (op' = "write_to_data" /\ IsPaletteAlias(VramAddr(ppu)))
           => /\ ~fatal'
              /\ Load(ppu'.palette_table, PaletteSlot(VramAddr(ppu))) = arg'
        /\ (op' = "read_data" /\ VramAddr(ppu) \in {16128, 16144})
           => /\ ~fatal'
              /\ ret' = Load(ppu.palette_table, PaletteSlot(VramAddr(ppu))) ]_vars

\* 0x66 written at the alias 0x3F10 is in slot 0, and the read of the alias
\* has ended the program
C15_Witness ==
    /\ op = "read_data" /\ fatal
    /\ VramAddr(ppu) = 16145
    /\ Load(ppu.palette_table, 0) = 102

---------------------------------------------------------------------------
(* PPUDATA in the nametables: the four logical tables at 0x2000, 0x2400,   *)
(* 0x2800 and 0x2C00 over the two kilobytes of VRAM                        *)

MaxMirrorOps == 6
MirrorAddrBytes == {32, 36, 40, 44}
MirrorData == {102, 119}

\* hist remembers the last PPUDATA write: its address and its byte
InitMirror ==
    /\ \E m \in Mirrorings : ppu = NesPPU_new(m)
    /\ bus = Bus_new(test_rom)
    /\ cpu = CPU_idle
    /\ loop_pc = "none"
    /\ fatal = FALSE
    /\ op = "new"
    /\ arg = 0
    /\ ret = 0
    /\ hist = [steps |-> 0, wrote |-> 0, byte |-> 0]

CanMirror == ~fatal /\ hist.steps < MaxMirrorOps

MirrorCall(o, a, res, h) ==
    /\ ppu' = res.ppu
    /\ op' = o /\ arg' = a /\ ret' = res.ret
    /\ fatal' = ~res.ok
    /\ hist' = [h EXCEPT !.steps = @ + 1]
    /\ UNCHANGED <<bus, cpu, loop_pc>>

MirrorWriteAddr ==
    \E d \in MirrorAddrBytes :
        /\ CanMirror
        /\ MirrorCall("write_to_ppu_addr", d,
                      [ppu |-> write_to_ppu_addr(ppu, d), ret |-> 0, ok |-> TRUE], hist)

MirrorReadData == CanMirror /\ MirrorCall("read_data", 0, read_data(ppu), hist)

MirrorWriteData ==
    \E d \in MirrorData :
        /\ CanMirror
        /\ MirrorCall("write_to_data", d, write_to_data(ppu, d),
                      [hist EXCEPT !.wrote = VramAddr(ppu), !.byte = d])

NextMirror == MirrorWriteAddr \/ MirrorReadData \/ MirrorWriteData

SpecMirror == InitMirror /\ [][NextMirror]_vars

\* the logical nametable of a, its offset inside the table, and the VRAM
\* cell the mirroring gives it
LogicalTable(a) == (a - 8192) \div 1024
TableOffset(a) == a % 1024
PhysicalTable(mirroring, t) ==
    IF mirroring = "HORIZONTAL"
    THEN (IF t \in {0, 1} THEN 0 ELSE 1)
    ELSE (IF t \in {0, 2} THEN 0 ELSE 1)
PhysicalCell(mirroring, a) ==
    PhysicalTable(mirroring, LogicalTable(a)) * 1024 + TableOffset(a)

(* C14: for every PPU address in 0x2000-0x2FFF a PPUDATA access reaches the *)
(* VRAM cell of the physical table its logical table maps to (HORIZONTAL:   *)
(* 0 and 1 to the first, 2 and 3 to the second; VERTICAL: 0 and 2 to the    *)
(* first, 1 and 3 to the second) at the same offset; hence a read through   *)
(* any table that shares the cell of the last write fetches the byte        *)
(* written.                                                                 *)
C14_Mirroring ==
    [][ (VramAddr(ppu) >= 8192 /\ VramAddr(ppu) <= 12287) =>
          /\ op' = "write_to_data" =>
                /\ ~fatal'
                /\ ppu'.vram = Store(ppu.vram, PhysicalCell(ppu.mirroring, VramAddr(ppu)), arg')
          /\ op' = "read_data" =>
                /\ ~fatal'
                /\ ppu'.internal_data_buffer =
                      Load(ppu.vram, PhysicalCell(ppu.mirroring, VramAddr(ppu)))
                /\ (/\ hist.wrote >= 8192 /\ hist.wrote <= 12287
                    /\ PhysicalCell(ppu.mirroring, hist.wrote)
                          = PhysicalCell(ppu.mirroring, VramAddr(ppu)))
                   => ppu'.internal_data_buffer = hist.byte ]_vars

\* VERTICAL: the byte written at 0x2024 (table 0) fetched by the read at
\* 0x2824 (table 2)
C14_Witness ==
    /\ op = "read_data" /\ ~fatal /\ ppu.mirroring = "VERTICAL"
    /\ hist.wrote = 8228 /\ hist.byte = 119
    /\ VramAddr(ppu) = 10277
    /\ ppu.internal_data_buffer = 119

---------------------------------------------------------------------------
(* The 2 KiB of RAM behind 0x0000-0x1FFF, through mem_read and mem_write   *)

RamAddrs == {0, 5, 2047, 2048, 2053, 4101, 6149, 8191}
RamBytes == {0, 85, 170}

\* hist remembers the last write: its address and its byte
InitRam ==
    /\ ppu = NesPPU_new("HORIZONTAL")
    /\ bus = Bus_new(test_rom)
    /\ cpu = CPU_idle
    /\ loop_pc = "none"
    /\ fatal = FALSE
    /\ op = "new"
    /\ arg = [address |-> 0, value |-> 0]
    /\ ret = 0
    /\ hist = [address |-> 0, value |-> 0]

\* a bus access o(a) that leaves the machine as m and returns r
BusAccess(m, o, a, r, h) ==
    /\ cpu' = m.cpu
    /\ bus' = m.bus
    /\ ppu' = m.ppu
    /\ fatal' = ~m.ok
    /\ op' = o /\ arg' = a /\ ret' = r
    /\ hist' = h
    /\ UNCHANGED loop_pc

RamRead(r, a) == BusAccess(r.m, "mem_read", [address |-> a, value |-> 0], r.ret, hist)

RamWritten(m, w) == BusAccess(m, "mem_write", w, 0, w)

MemRead == \E a \in RamAddrs : ~fatal /\ RamRead(Bus_mem_read(Machine, a), a)

MemWrite ==
    \E a \in RamAddrs, v \in RamBytes :
        ~fatal /\ RamWritten(Bus_mem_write(Machine, a, v), [address |-> a, value |-> v])

NextRam == MemRead \/ MemWrite

SpecRam == InitRam /\ [][NextRam]_vars

(* C16: for every address a in 0x0000-0x1FFF and byte v, a bus write of v   *)
(* to a followed by a bus read of a returns v, and a read of a always       *)
(* equals a read of a & 0x07FF.                                             *)
C16_RamMirror ==
    [][ op' = "mem_read" =>
          /\ ~fatal'
          /\ (op = "mem_write" /\ arg.address = arg'.address) => ret' = arg.value
          /\ ret' = Bus_mem_read(Machine, BitAnd(arg'.address, 2047)).ret ]_vars

\* 0xAA written at 0x0805 and read at 0x1005, after reads elsewhere
C16_Witness ==
    /\ op = "mem_read" /\ arg.address = 4101 /\ ret = 170
    /\ hist = [address |-> 2053, value |-> 170]
    /\ Load(bus.cpu_vram, 5) = 170
    /\ Load(bus.cpu_vram, 0) = 85

---------------------------------------------------------------------------
(* The joypad: strobe writes and reads by the program, presses and         *)
(* releases by the frame callback, in any order                            *)

JoypadBytes == {0, 1, 2, 3}

\* hist tells whether the last write cleared bit 0 with the strobe set
\* (armed), and counts the reads since the last write, up to nine
InitJoypad ==
    /\ ppu = NesPPU_new("HORIZONTAL")
    /\ bus = Bus_new(test_rom)
    /\ cpu = CPU_idle
    /\ loop_pc = "none"
    /\ fatal = FALSE
    /\ op = "new"
    /\ arg = 0
    /\ ret = 0
    /\ hist = [armed |-> FALSE, reads |-> 0]

JoypadCall(o, a, j, r, h) ==
    /\ bus' = [bus EXCEPT !.joypad1 = j]
    /\ op' = o /\ arg' = a /\ ret' = r
    /\ hist' = h
    /\ UNCHANGED <<ppu, cpu, loop_pc, fatal>>

WriteJoypad ==
    \E v \in JoypadBytes :
        JoypadCall("write", v, Joypad_write(bus.joypad1, v), 0,
                   [armed |-> bus.joypad1.strobe /\ v % 2 = 0, reads |-> 0])

ReadJoypad ==
    JoypadCall("read", 0, Joypad_read(bus.joypad1).joypad, Joypad_read(bus.joypad1).ret,
               [hist EXCEPT !.reads = IF @ < 9 THEN @ + 1 ELSE @])

PressButton ==
    \E n \in 1..8 :
        JoypadCall("press", JoypadButton[n],
                   Joypad_press(bus.joypad1, JoypadButton[n]), 0, hist)

ReleaseButton ==
    \E n \in 1..8 :
        JoypadCall("release", JoypadButton[n],
                   Joypad_release(bus.joypad1, JoypadButton[n]), 0, hist)

NextJoypad == WriteJoypad \/ ReadJoypad \/ PressButton \/ ReleaseButton

SpecJoypad == InitJoypad /\ [][NextJoypad]_vars

\* 1 when button number n (0 = A, .., 7 = RIGHT) is held, else 0
Held(j, n) == IF Contains(j.button_status, JoypadButton[n + 1]) THEN 1 ELSE 0

(* C17: after a joypad write with bit 0 set followed by a write with bit 0  *)
(* clear, the first eight reads return bits 0..7 of button_status in the    *)
(* order A, B, SELECT, START, UP, DOWN, LEFT, RIGHT, and every read after   *)
(* the eighth returns 1 until the next write.                               *)
C17_Report ==
    [][ (op' = "read" /\ hist.armed) =>
          ret' = IF hist.reads < 8 THEN Held(bus.joypad1, hist.reads) ELSE 1 ]_vars

\* the ninth read of a report, with no button held
C17_Witness ==
    /\ op = "read" /\ hist.armed /\ hist.reads = 9
    /\ ret = 1 /\ bus.joypad1.button_status = 0
    /\ bus.joypad1.button_index = 8

(* C18: while strobe is set every joypad read returns the current state of  *)
(* button A and leaves button_index at 0; a write with bit 0 clear clears   *)
(* strobe without changing button_index.                                    *)
C18_Strobe ==
    [][ /\ (op' = "read" /\ bus.joypad1.strobe)
           => /\ ret' = Held(bus.joypad1, 0)
              /\ bus'.joypad1.button_index = 0
        /\ (op' = "write" /\ arg' % 2 = 0)
           => /\ ~bus'.joypad1.strobe
              /\ bus'.joypad1.button_index = bus.joypad1.button_index ]_vars

\* a second read in a row under strobe, with A and RIGHT held
C18_Witness ==
    /\ op = "read" /\ bus.joypad1.strobe /\ hist.reads = 2
    /\ ret = 1 /\ bus.joypad1.button_status = 129
    /\ bus.joypad1.button_index = 0

(* C19: in every reachable joypad state button_index is between 0 and 8    *)
(* inclusive, under any interleaving of write, read, press and release.     *)
C19_ButtonIndex == bus.joypad1.button_index \in 0..8

\* the report has run out, buttons held
C19_Witness ==
    /\ bus.joypad1.button_index = 8 /\ op = "read" /\ ret = 1
    /\ bus.joypad1.button_status = 130

---------------------------------------------------------------------------
(* The accumulator: add_to_reg_a and sub_from_reg_a from every value of A  *)
(* and either carry                                                        *)

AluBytes == {0, 1, 80, 127, 128, 176, 208, 255}

\* hist is the accumulator and the flags before the last operation
InitAlu ==
    /\ ppu = NesPPU_new("HORIZONTAL")
    /\ bus = Bus_new(test_rom)
    /\ cpu = CPU_new
    /\ loop_pc = "none"
    /\ fatal = FALSE
    /\ op = "new"
    /\ arg = 0
    /\ ret = 0
    /\ hist = [register_a |-> 0, status |-> 36]

AluCall(o, a, m) ==
    /\ cpu' = m.cpu
    /\ op' = o /\ arg' = a /\ ret' = 0
    /\ hist' = [register_a |-> cpu.register_a, status |-> cpu.status]
    /\ UNCHANGED <<ppu, bus, loop_pc, fatal>>

Adc == \E v \in AluBytes : AluCall("adc", v, add_to_reg_a(Machine, v))

Sbc == \E v \in AluBytes : AluCall("sbc", v, sub_from_reg_a(Machine, v))

Sec == AluCall("sec", 0, sec(Machine))

Clc == AluCall("clc", 0, clc(Machine))

NextAlu == Adc \/ Sbc \/ Sec \/ Clc

SpecAlu == InitAlu /\ [][NextAlu]_vars

Sign(x) == x >= 128
CarryIn(c) == IF Contains(c.status, CARRY) THEN 1 ELSE 0

(* C21: for all A, M and carry-in C, ADC leaves A = (A_pre + M + C) mod     *)
(* 256, CARRY set iff A_pre + M + C > 0xFF, OVERFLOW set iff A_pre and M    *)
(* have the same sign bit and A_post has the other, and ZERO and NEGATIVE   *)
(* reflecting A_post.                                                       *)
C21_Adc ==
    [][ op' = "adc" =>
          /\ cpu'.register_a = (cpu.register_a + arg' + CarryIn(cpu)) % 256
          /\ Contains(cpu'.status, CARRY) = (cpu.register_a + arg' + CarryIn(cpu) > 255)
          /\ Contains(cpu'.status, OVERFLOW)
               = (/\ Sign(cpu.register_a) = Sign(arg')
                  /\ Sign(cpu.register_a) # Sign(cpu'.register_a))
          /\ Contains(cpu'.status, ZERO) = (cpu'.register_a = 0)
          /\ Contains(cpu'.status, NEGATIVE) = Sign(cpu'.register_a) ]_vars

\* A = 0x50, M = 0x50, C = 0 gave A = 0xA0 with OVERFLOW and NEGATIVE
C21_Witness ==
    /\ op = "adc" /\ arg = 80
    /\ hist.register_a = 80 /\ ~Contains(hist.status, CARRY)
    /\ cpu.register_a = 160
    /\ ~Contains(cpu.status, CARRY) /\ Contains(cpu.status, OVERFLOW)
    /\ Contains(cpu.status, NEGATIVE) /\ ~Contains(cpu.status, ZERO)

(* C22: for all A, M and carry-in C, SBC with operand M leaves the same A   *)
(* and the same CARRY, OVERFLOW, ZERO and NEGATIVE flags as ADC with the    *)
(* bitwise complement of M from the same starting state.                    *)
C22_SbcIsAdcOfComplement ==
    [][ op' = "sbc" =>
          /\ cpu'.register_a = add_to_reg_a(Machine, BitXor(arg', 255)).cpu.register_a
          /\ cpu'.status = add_to_reg_a(Machine, BitXor(arg', 255)).cpu.status ]_vars

\* 0x50 - 0xB0 with no borrow pending: 0xA0, a borrow, a signed overflow
C22_Witness ==
    /\ op = "sbc" /\ arg = 176
    /\ hist.register_a = 80 /\ Contains(hist.status, CARRY)
    /\ cpu.register_a = 160
    /\ ~Contains(cpu.status, CARRY) /\ Contains(cpu.status, OVERFLOW)

---------------------------------------------------------------------------
(* The stack: 16-bit pushes and pops at every position of the pointer,     *)
(* which the program sets with LDX / TXS                                   *)

MaxStackOps == 4
StackPointers == {0, 1, 2, 128, 255}
StackWords == {0, 255, 4660, 32769, 65280, 65535}

\* hist: the number of operations, the last one, and the pointer before it
InitStack ==
    /\ ppu = NesPPU_new("HORIZONTAL")
    /\ bus = Bus_new(test_rom)
    /\ cpu = CPU_new
    /\ loop_pc = "none"
    /\ fatal = FALSE
    /\ op = "new"
    /\ arg = 0
    /\ ret = 0
    /\ hist = [steps |-> 0, stack_pointer |-> STACK_START]

CanStack == ~fatal /\ hist.steps < MaxStackOps

StackCall(o, a, m, r) ==
    /\ cpu' = m.cpu
    /\ bus' = m.bus
    /\ ppu' = m.ppu
    /\ fatal' = ~m.ok
    /\ op' = o /\ arg' = a /\ ret' = r
    /\ hist' = [steps |-> hist.steps + 1, stack_pointer |-> cpu.stack_pointer]
    /\ UNCHANGED loop_pc

\* LDX #s; TXS
LoadStackPointer ==
    \E s \in StackPointers :
        CanStack /\ StackCall("txs", s, txs([Machine EXCEPT !.cpu.register_x = s]), 0)

Push == \E v \in StackWords :
            CanStack /\ StackCall("stack_push_u16", v, stack_push_u16(Machine, v), 0)

Popped(r) == StackCall("stack_pop_u16", 0, r.m, r.ret)

Pop == CanStack /\ Popped(stack_pop_u16(Machine))

NextStack == LoadStackPointer \/ Push \/ Pop

SpecStack == InitStack /\ [][NextStack]_vars

\* the byte of the stack page at pointer value s (taken modulo 256)
StackByte(b, s) == Load(b.cpu_vram, 256 + (s % 256))

(* C23: for every 16-bit v and every stack pointer value S (0x00 and 0x01   *)
(* included, where the pointer wraps), stack_push_u16(v) followed by        *)
(* stack_pop_u16() returns v and restores S; each push writes at 0x0100+S   *)
(* before decrementing and each pop increments before reading.              *)
C23_StackRoundTrip ==
    [][ /\ op' = "stack_push_u16" =>
              /\ ~fatal'
              /\ StackByte(bus', cpu.stack_pointer) = arg' \div 256
              /\ StackByte(bus', cpu.stack_pointer + 255) = arg' % 256
              /\ cpu'.stack_pointer = (cpu.stack_pointer + 254) % 256
        /\ op' = "stack_pop_u16" =>
              /\ ~fatal'
              /\ ret' = StackByte(bus, cpu.stack_pointer + 1)
                        + 256 * StackByte(bus, cpu.stack_pointer + 2)
              /\ cpu'.stack_pointer = (cpu.stack_pointer + 2) % 256
              /\ op = "stack_push_u16" =>
                    ret' = arg /\ cpu'.stack_pointer = hist.stack_pointer ]_vars

\* 0x1234 pushed with S = 0x00 (high byte at 0x0100, low byte at 0x01FF) and
\* popped again
C23_Witness ==
    /\ op = "stack_pop_u16" /\ ret = 4660 /\ ~fatal
    /\ cpu.stack_pointer = 0 /\ hist.stack_pointer = 254
    /\ StackByte(bus, 0) = 18 /\ StackByte(bus, 255) = 52

---------------------------------------------------------------------------
(* Bus accesses that end the program: write-only and read-only registers,  *)
(* PRG ROM writes, PPUDATA in the unusable window                          *)

MaxFatalOps == 3
FatalReadAddrs == {0, 8192, 8193, 8194, 8195, 8197, 8198, 8199, 8200, 16377, 16404}
FatalWriteAddrs == {8194, 8198, 8199, 8202, 16382, 32768, 65535}
FatalBytes == {0, 48, 62, 255}

InitFatal ==
    /\ ppu = NesPPU_new("HORIZONTAL")
    /\ bus = Bus_new(test_rom)
    /\ cpu = CPU_idle
    /\ loop_pc = "none"
    /\ fatal = FALSE
    /\ op = "new"
    /\ arg = [address |-> 0, value |-> 0]
    /\ ret = 0
    /\ hist = [steps |-> 0]

CanFatal == ~fatal /\ hist.steps < MaxFatalOps

FatalRead(r, a) ==
    BusAccess(r.m, "mem_read", [address |-> a, value |-> 0], r.ret,
              [steps |-> hist.steps + 1])

FatalWritten(m, w) == BusAccess(m, "mem_write", w, 0, [steps |-> hist.steps + 1])

RegisterRead ==
    \E a \in FatalReadAddrs : CanFatal /\ FatalRead(Bus_mem_read(Machine, a), a)

RegisterWrite ==
    \E a \in FatalWriteAddrs, v \in FatalBytes :
        CanFatal /\ FatalWritten(Bus_mem_write(Machine, a, v), [address |-> a, value |-> v])

NextFatal == RegisterRead \/ RegisterWrite

SpecFatal == InitFatal /\ [][NextFatal]_vars

\* the register behind a bus address: 0x2008-0x3FFF mirror 0x2000-0x2007
Register(a) == IF a >= 8200 /\ a <= 16383 THEN 8192 + (a % 8) ELSE a

(* C24: reading any of the write-only registers 0x2000, 0x2001, 0x2003,     *)
(* 0x2005, 0x2006, 0x4014 (directly or through a 0x2008-0x3FFF mirror),     *)
(* writing 0x2002, writing any address in 0x8000-0xFFFF, and a PPUDATA      *)
(* access whose PPU address lies in 0x3000-0x3EFF each end execution with   *)
(* a fatal error: the access is fatal and no step follows it.               *)
C24_FatalAccesses ==
    [][ /\ ~fatal
        /\ (/\ op' = "mem_read"
            /\ Register(arg'.address) \in {8192, 8193, 8195, 8197, 8198, 16404}) => fatal'
        /\ (op' = "mem_write" /\ Register(arg'.address) = 8194) => fatal'
        /\ (op' = "mem_write" /\ arg'.address >= 32768) => fatal'
        /\ (/\ op' \in {"mem_read", "mem_write"}
            /\ Register(arg'.address) = 8199
            /\ VramAddr(ppu) >= 12288 /\ VramAddr(ppu) <= 16127) => fatal' ]_vars

\* the PPUDATA read at PPU address 0x3EFF, the last of the window
C24_Witness ==
    /\ fatal /\ op = "mem_read" /\ arg.address = 8199
    /\ VramAddr(ppu) = 16128

---------------------------------------------------------------------------
(* The cartridge: Rom::new on iNES images, whole, truncated and malformed  *)
(*                                                                         *)
(* An image is its header bytes (at most 16), the number of trainer bytes  *)
(* that follow a whole header, and the number of payload bytes after       *)
(* them. A Vec copied from the image is the slice it was copied from:      *)
(* [from, len].                                                            *)

NES_TAG == <<78, 69, 83, 26>>
PRG_ROM_PAGE_SIZE == 16384

RawLen(raw) == Len(raw.header) + raw.trainer + raw.payload

\* the bytes of the file after the header: trainer bytes are 252..255,
\* payload byte k is 1 + k mod 251
PayloadByte(k) == 1 + (k % 251)
TrainerByte(k) == 252 + (k % 4)

\* raw[i], for i < RawLen(raw)
RawByte(raw, i) ==
    IF i < Len(raw.header) THEN raw.header[i + 1]
    ELSE IF i < Len(raw.header) + raw.trainer THEN TrainerByte(i - Len(raw.header))
    ELSE PayloadByte(i - Len(raw.header) - raw.trainer)

RomPanic == [tag |-> "panic"]
RomErr(msg) == [tag |-> "Err", msg |-> msg]

\* mutant: the trainer is never skipped
prg_rom_start_no_skip(raw) == 16

\* 16 + if skip_trainer { 512 } else { 0 }
prg_rom_start(raw) == 16 + (IF BitAnd(RawByte(raw, 6), 4) # 0 THEN 512 ELSE 0)

prg_rom_end(raw) == prg_rom_start(raw) + RawByte(raw, 4) * PRG_ROM_PAGE_SIZE
chr_rom_end(raw) == prg_rom_end(raw) + RawByte(raw, 5) * CHR_ROM_PAGE_SIZE

\* the match on (four_screen, vertical_mirroring)
RomMirroring(raw) ==
    IF BitAnd(RawByte(raw, 6), 8) # 0 THEN "FOURSCREEN"
    ELSE IF BitAnd(RawByte(raw, 6), 1) # 0 THEN "VERTICAL"
    ELSE "HORIZONTAL"

\* Rom::new from the Ok(Rom { .. }) expression on; a slice that ends past
\* the image panics
Rom_slices(raw) ==
    IF prg_rom_end(raw) > RawLen(raw) \/ chr_rom_end(raw) > RawLen(raw)
    THEN RomPanic
    ELSE [ tag |-> "Ok",
           rom |-> [ prg_rom |-> [from |-> prg_rom_start(raw),
                                  len |-> prg_rom_end(raw) - prg_rom_start(raw)],
                     chr_rom |-> [from |-> prg_rom_end(raw),
                                  len |-> chr_rom_end(raw) - prg_rom_end(raw)],
                     mapper |-> BitOr(BitAnd(RawByte(raw, 7), 240),
                                      RawByte(raw, 6) \div 16),
                     mirroring |-> RomMirroring(raw) ] ]

\* Rom::new: Ok, Err, or the panic of an index or slice out of range
Rom_new(raw) ==
    IF RawLen(raw) < 4 THEN RomPanic
    ELSE IF [i \in 1..4 |-> RawByte(raw, i - 1)] # NES_TAG
    THEN RomErr("Invalid NES file")
    ELSE IF RawLen(raw) < 8 THEN RomPanic
    ELSE IF BitAnd(RawByte(raw, 7) \div 4, 3) # 0
    THEN RomErr("Unsupported iNES version")
    ELSE Rom_slices(raw)

\* the images parsed: headers cut at every length that matters, good and
\* bad tags, both versions, each mirroring, with and without a trainer,
\* whole and one byte short
HeaderLens == {0, 3, 4, 7, 8, 16}
Tags == {NES_TAG, <<77, 69, 83, 26>>, <<78, 69, 83, 0>>}
PrgBanks == {1, 2}
ChrBanks == {0, 1}
Flags6 == {0, 1, 4, 8, 21, 25, 28}
Flags7 == {0, 3, 4, 8, 12, 240}
Trainers == {0, 512}
Missing == {0, 1}

Header(tag, prg, chr, f6, f7) == tag \o <<prg, chr, f6, f7, 0, 0, 0, 0, 0, 0, 0, 0>>

Image(h, n, trainer, missing) ==
    IF n < 16
    THEN [header |-> SubSeq(h, 1, n), trainer |-> 0, payload |-> 0]
    ELSE [header |-> h, trainer |-> trainer,
          payload |-> h[5] * PRG_ROM_PAGE_SIZE + h[6] * CHR_ROM_PAGE_SIZE - missing]

RawImages ==
    { Image(Header(tag, prg, chr, f6, f7), n, trainer, missing) :
        tag \in Tags, prg \in PrgBanks, chr \in ChrBanks, f6 \in Flags6,
        f7 \in Flags7, n \in HeaderLens, trainer \in Trainers, missing \in Missing }

InitRom ==
    /\ ppu = NesPPU_new("HORIZONTAL")
    /\ bus = Bus_new(test_rom)
    /\ cpu = CPU_idle
    /\ loop_pc = "none"
    /\ fatal = FALSE
    /\ op = "new"
    /\ arg \in RawImages
    /\ ret = 0
    /\ hist = 0

RomNew ==
    /\ op = "new"
    /\ op' = "Rom_new" /\ ret' = Rom_new(arg)
    /\ fatal' = (Rom_new(arg) = RomPanic)
    /\ UNCHANGED <<ppu, bus, cpu, loop_pc, arg, hist>>

NextRom == RomNew

SpecRom == InitRom /\ [][NextRom]_vars

\* the first four bytes are the tag; header[7] names a later iNES version
HasTag(raw) == Len(raw.header) >= 4 /\ SubSeq(raw.header, 1, 4) = NES_TAG
LaterVersion(raw) == Len(raw.header) >= 8 /\ (raw.header[8] \div 4) % 4 # 0

(* C25: for every input byte sequence, Rom::new returns Err("Invalid NES    *)
(* file") when the first four bytes are not 4E 45 53 1A, otherwise          *)
(* Err("Unsupported iNES version") when (header[7] >> 2) & 3 != 0, and      *)
(* otherwise Ok; parse failures are returned as error values, never as an   *)
(* abort.                                                                   *)
C25_ParseResult ==
    op = "Rom_new" =>
        /\ ret.tag # "panic"
        /\ ret = IF ~HasTag(arg) THEN RomErr("Invalid NES file")
                 ELSE IF LaterVersion(arg) THEN RomErr("Unsupported iNES version")
                 ELSE [tag |-> "Ok", rom |-> ret.rom]

\* a three-byte input, "NES", has ended the program
C25_Witness ==
    /\ op = "Rom_new" /\ ret = RomPanic /\ fatal
    /\ arg.header = <<78, 69, 83>>

\* a well-formed iNES v1 image: the trainer is there iff its bit is set, and
\* no byte is missing
WellFormed(raw) ==
    /\ HasTag(raw) /\ Len(raw.header) = 16 /\ ~LaterVersion(raw)
    /\ raw.trainer = (IF (raw.header[7] \div 4) % 2 = 1 THEN 512 ELSE 0)
    /\ raw.payload = raw.header[5] * 16384 + raw.header[6] * 8192

\* the same image without its trainer and trainer bit
Untrained(raw) ==
    [raw EXCEPT !.trainer = 0,
                !.header[7] = IF (@ \div 4) % 2 = 1 THEN @ - 4 ELSE @]

\* byte i of a Vec copied from raw
VecByte(raw, vec, i) == RawByte(raw, vec.from + i)

(* C26: for a well-formed iNES v1 image, Rom::new yields mapper =            *)
(* (header[7] & 0xF0) | (header[6] >> 4), mirroring FOURSCREEN if header[6]  *)
(* bit 3 is set, else VERTICAL if bit 0 is set, else HORIZONTAL, PRG of      *)
(* header[4]*16384 bytes and CHR of header[5]*8192 bytes taken from directly *)
(* after the header; with the trainer bit set and a 512-byte trainer         *)
(* inserted the PRG, CHR, mapper and mirroring are those of the image        *)
(* without them.                                                             *)
C26_ParsedRom ==
    (op = "Rom_new" /\ WellFormed(arg)) =>
        /\ ret.tag = "Ok"
        /\ ret.rom.mapper = (arg.header[8] \div 16) * 16 + (arg.header[7] \div 16)
        /\ ret.rom.mirroring =
              IF (arg.header[7] \div 8) % 2 = 1 THEN "FOURSCREEN"
              ELSE IF arg.header[7] % 2 = 1 THEN "VERTICAL"
              ELSE "HORIZONTAL"
        /\ ret.rom.prg_rom.len = arg.header[5] * 16384
        /\ ret.rom.chr_rom.len = arg.header[6] * 8192
        /\ \A i \in 0..(ret.rom.prg_rom.len - 1) :
              VecByte(arg, ret.rom.prg_rom, i) = PayloadByte(i)
        /\ \A i \in 0..(ret.rom.chr_rom.len - 1) :
              VecByte(arg, ret.rom.chr_rom, i) = PayloadByte(ret.rom.prg_rom.len + i)
        /\ Rom_new(Untrained(arg)).tag = "Ok"
        /\ Rom_new(Untrained(arg)).rom.mapper = ret.rom.mapper
        /\ Rom_new(Untrained(arg)).rom.mirroring = ret.rom.mirroring
        /\ Rom_new(Untrained(arg)).rom.prg_rom.len = ret.rom.prg_rom.len
        /\ Rom_new(Untrained(arg)).rom.chr_rom.len = ret.rom.chr_rom.len

\* two PRG banks and one CHR bank behind a trainer, mapper 0xF1, four-screen
C26_Witness ==
    /\ op = "Rom_new" /\ WellFormed(arg) /\ arg.trainer = 512
    /\ arg.header[5] = 2 /\ arg.header[6] = 1
    /\ arg.header[7] = 28 /\ arg.header[8] = 240
    /\ ret.tag = "Ok" /\ ret.rom.mapper = 241 /\ ret.rom.mirroring = "FOURSCREEN"
    /\ ret.rom.prg_rom = [from |-> 528, len |-> 32768]
    /\ ret.rom.chr_rom = [from |-> 33296, len |-> 8192]

---------------------------------------------------------------------------
(* Control transfer: the run loop from reset to BRK on programs of one     *)
(* branch, JMP or JSR; the rest of PRG ROM is BRK, with an RTS where the   *)
(* JSR lands.                                                              *)

MaxFlowCycles == 40

Orgs == {32768, 32896}
Offsets == 0..255
BranchCodes == {144, 176, 208, 240}
JumpCodes == {76, 32}
FlowPointers == {0, 1, 253, 255}

\* what makes the branch taken: nothing after reset for BCC and BNE, SEC
\* for BCS, LDX #0 for BEQ
Prelude(code) ==
    CASE code = 176 -> <<56>>
      [] code = 240 -> <<162, 0>>
      [] OTHER -> <<>>

\* LDX #s; TXS, unless s is what reset leaves
LoadPointer(s) == IF s = STACK_START THEN <<>> ELSE <<162, s, 154>>

Flow(org, code, sub) ==
    [main |-> "flow", handler |-> "none", setup |-> "none",
     org |-> org, code |-> code, sub |-> sub]

\* the operands: the address of the operand itself, the byte after the
\* instruction, and addresses further away
Targets(p) == {p + 1, p + 3, p + 16, 36864, 65280}

BranchRoms ==
    { Flow(org, Prelude(code) \o <<code, offset>>, 0) :
        org \in Orgs, code \in BranchCodes, offset \in Offsets }

JumpRoms ==
    UNION { { Flow(org, LoadPointer(s) \o <<code, t % 256, t \div 256>>,
                   IF code = 32 THEN t ELSE 0) :
                t \in Targets(org + Len(LoadPointer(s))) } :
            org \in Orgs, code \in JumpCodes, s \in FlowPointers }

InitFlow ==
    /\ \E rom \in BranchRoms \cup JumpRoms : bus = Bus_new(rom)
    /\ ppu = NesPPU_new("VERTICAL")
    /\ cpu = CPU_new
    /\ loop_pc = At("reset", 0, 0)
    /\ fatal = FALSE
    /\ op = "new"
    /\ arg = 0
    /\ ret = 0
    /\ hist = NoNmi

CanFlow == bus.cycles < MaxFlowCycles

\* the loop of SpecRun, stopped after MaxFlowCycles CPU cycles
FlowPoll == CanFlow /\ PollNmi
FlowFetch == CanFlow /\ Fetch

NextFlow == Reset \/ FlowPoll \/ FlowFetch \/ Execute \/ Retire

SpecFlow == InitFlow /\ [][NextFlow]_vars

(* C27: in every run-loop iteration the PC fix-up and bus.tick(base_cycles) *)
(* are performed before the BREAK flag is tested, so the BRK that ends the  *)
(* loop also adds its base cycles to Bus.cycles and advances the PPU by     *)
(* three times that many dots.                                              *)
C27_BrkTicks ==
    [][(loop_pc.at # "done" /\ loop_pc'.at = "done") =>
          /\ bus'.cycles = bus.cycles + OpCode(0).cycles
          /\ ppu' = Tick(Machine, OpCode(0).cycles).ppu]_vars

\* JMP to the next instruction, a BRK: the loop is left after 3 CPU cycles
\* and 9 dots
C27_Witness ==
    /\ loop_pc.at = "done" /\ op = "brk"
    /\ bus.rom.code = <<76, 3, 128>>
    /\ Contains(cpu.status, BREAK)
    /\ bus.cycles = 3 /\ ppu.cycles = 9

\* the byte and the word of PRG ROM at address a
RomByte(a) == read_prg_rom(bus, a)
RomWord(a) == RomByte(a) + 256 * RomByte(a + 1)

\* the branch with opcode code is taken under status
Taken(code, status) ==
    CASE code = 144 -> ~Contains(status, CARRY)
      [] code = 176 -> Contains(status, CARRY)
      [] code = 208 -> ~Contains(status, ZERO)
      [] code = 240 -> Contains(status, ZERO)

\* the offset byte as a number in -128..127
Signed(offset) == IF offset >= 128 THEN offset - 256 ELSE offset

\* the step that ends an iteration of the loop
EndsIteration == loop_pc.at = "tick" /\ loop_pc'.at = "top"

(* C28: after a taken branch the next opcode is fetched from PC + 1 +       *)
(* offset, PC being the address of the offset byte, for every signed offset *)
(* in -128..127; after JMP absolute or JSR it is fetched from the 16-bit    *)
(* operand, for every operand value, the address of the instruction's own   *)
(* operand byte included.                                                   *)
C28_ControlTransfer ==
    [][EndsIteration =>
          /\ (loop_pc.code \in BranchCodes /\ Taken(loop_pc.code, cpu.status)) =>
                cpu'.program_counter =
                    loop_pc.original_pc + 1 + Signed(RomByte(loop_pc.original_pc))
          /\ loop_pc.code \in JumpCodes =>
                cpu'.program_counter = RomWord(loop_pc.original_pc)]_vars

\* BCC -1 at 0x8080 has been retired: the next opcode is fetched from 0x8082,
\* not from the offset byte at 0x8081
C28_Witness ==
    /\ loop_pc.at = "top" /\ op = "tick"
    /\ bus.rom.code = <<144, 255>> /\ bus.rom.org = 32896
    /\ cpu.program_counter = 32898

\* the address of the JSR of the program, and S when it is reached
JsrAt == bus.rom.org + Len(bus.rom.code) - 3
PointerAtJsr == IF Len(bus.rom.code) = 3 THEN STACK_START ELSE bus.rom.code[2]
IsJsrRom == bus.rom.code[Len(bus.rom.code) - 2] = 32

\* the stack is as the JSR of the program left it
ReturnsFromJsr ==
    /\ IsJsrRom
    /\ cpu.stack_pointer = WrapSub8(PointerAtJsr, 2)
    /\ Load(bus.cpu_vram, STACK + PointerAtJsr) = (JsrAt + 2) \div 256
    /\ Load(bus.cpu_vram, STACK + WrapSub8(PointerAtJsr, 1)) = (JsrAt + 2) % 256

(* C29: a JSR whose opcode is at address p pushes p+2, high byte first, and *)
(* continues at its operand; a following RTS executed with the stack        *)
(* contents unmodified resumes at p+3 and restores S to its value before    *)
(* the JSR.                                                                 *)
C29_JsrRts ==
    [][/\ (loop_pc.at = "exec" /\ loop_pc.code = 32) =>
            /\ loop_pc.original_pc = JsrAt + 1
            /\ cpu.stack_pointer = PointerAtJsr
            /\ Load(bus'.cpu_vram, STACK + cpu.stack_pointer) = (JsrAt + 2) \div 256
            /\ Load(bus'.cpu_vram, STACK + WrapSub8(cpu.stack_pointer, 1))
                  = (JsrAt + 2) % 256
            /\ cpu'.stack_pointer = WrapSub8(cpu.stack_pointer, 2)
       /\ (EndsIteration /\ loop_pc.code = 32) =>
            cpu'.program_counter = RomWord(JsrAt + 1)
       /\ (loop_pc.at = "exec" /\ loop_pc.code = 96 /\ ReturnsFromJsr) =>
            /\ cpu'.program_counter = JsrAt + 3
            /\ cpu'.stack_pointer = PointerAtJsr
       /\ (EndsIteration /\ loop_pc.code = 96 /\ cpu.stack_pointer = PointerAtJsr) =>
            cpu'.program_counter = JsrAt + 3]_vars

\* JSR 0x8001 at 0x8000 has been retired: 0x8002 is on the stack and the
\* next opcode is fetched from 0x8003
C29_Witness ==
    /\ loop_pc.at = "top" /\ op = "tick"
    /\ bus.rom.code = <<32, 1, 128>> /\ bus.rom.org = 32768
    /\ Load(bus.cpu_vram, 509) = 128 /\ Load(bus.cpu_vram, 508) = 2
    /\ cpu.stack_pointer = 251
    /\ cpu.program_counter = 32771

---------------------------------------------------------------------------
(* OAM DMA through the bus: a write to 0x4014 of every page number, after  *)
(* RAM and OAMADDR have been written                                       *)

MaxBusDmaOps == 3
DmaSourceAddrs == {767, 2576}
DmaSourceBytes == {119}
DmaCursors == {255}
DmaRom == [main |-> "enable", handler |-> "ack", setup |-> "wrap"]

InitBusDma ==
    /\ ppu = NesPPU_new("HORIZONTAL")
    /\ bus = Bus_new(DmaRom)
    /\ cpu = CPU_idle
    /\ loop_pc = "none"
    /\ fatal = FALSE
    /\ op = "new"
    /\ arg = [address |-> 0, value |-> 0]
    /\ ret = 0
    /\ hist = [steps |-> 0]

CanBusDma == ~fatal /\ op # "dma" /\ hist.steps < MaxBusDmaOps

BusWritten(m, o, w) == BusAccess(m, o, w, 0, [steps |-> hist.steps + 1])

\* mem_write to RAM, mirrors included
WriteSource ==
    \E a \in DmaSourceAddrs, v \in DmaSourceBytes :
        /\ CanBusDma
        /\ BusWritten(Bus_mem_write(Machine, a, v), "mem_write",
                      [address |-> a, value |-> v])

\* mem_write to OAMADDR
WriteCursor ==
    \E k \in DmaCursors :
        /\ CanBusDma
        /\ BusWritten(Bus_mem_write(Machine, 8195, k), "oam_addr",
                      [address |-> 8195, value |-> k])

\* mem_write to 0x4014, the last write of a run
WriteDma ==
    \E v \in 0..255 :
        /\ CanBusDma
        /\ BusWritten(Bus_mem_write(Machine, 16404, v), "dma",
                      [address |-> 16404, value |-> v])

NextBusDma == WriteSource \/ WriteCursor \/ WriteDma

SpecBusDma == InitBusDma /\ [][NextBusDma]_vars

\* what the bus holds at address a of a page that can be read: RAM and its
\* mirrors, 0 in 0x4100-0x7FFF, PRG ROM
SourceByte(a) ==
    IF a < 8192 THEN Load(bus.cpu_vram, a % 2048)
    ELSE IF a >= 32768 THEN read_prg_rom(bus, a)
    ELSE 0

\* the page copied into OAM from the cursor on, the cursor left alone
Copied(v) ==
    /\ ~fatal'
    /\ \A i \in 0..255 :
          Load(ppu'.oam_data, (ppu.oam_addr + i) % 256) = SourceByte(v * 256 + i)
    /\ ppu'.oam_addr = ppu.oam_addr

\* the original statement: the copy is made for every page number
C30_Original == [][op' = "dma" => Copied(arg'.value)]_vars

(* C30: a bus write of v to 0x4014 reads the 256 bytes at (v<<8)+0 ..       *)
(* (v<<8)+255 through the bus and copies them into OAM starting at the      *)
(* current oam_addr with wrap, completing without a fatal error and leaving *)
(* oam_addr unchanged, for every byte v outside 0x20..0x40; for v in        *)
(* 0x20..0x40 the page holds a write-only register (0x2000 or one of its    *)
(* mirrors, 0x4014) and the write ends in the fatal error of reading it,    *)
(* with OAM as it was.                                                      *)
C30_BusDma ==
    [][op' = "dma" =>
          /\ arg'.value \notin 32..64 => Copied(arg'.value)
          /\ arg'.value \in 32..64 => (fatal' /\ ppu' = ppu)
          /\ bus' = bus]_vars

\* page 0x02 copied from cursor 0xFF: the byte of 0x02FF lands in cell 0xFE
\* and the zero of 0x0200 in cell 0xFF
C30_Witness ==
    /\ op = "dma" /\ arg.value = 2 /\ ~fatal
    /\ ppu.oam_addr = 255
    /\ Load(ppu.oam_data, 254) = 119 /\ Load(ppu.oam_data, 255) = 0

---------------------------------------------------------------------------
(* Dispatch: LDX #x; LDY #y; then opcode 0x9C or 0x9E on an address in     *)
(* RAM, run from reset                                                     *)

StoreCodes == {156, 158}
StoreIndexes == {0, 3, 31, 255}
StoreBases == {512, 752, 1536}

StoreRoms ==
    { Flow(32768, <<162, x, 160, y, code, base % 256, base \div 256>>, 0) :
        x \in StoreIndexes, y \in StoreIndexes, code \in StoreCodes, base \in StoreBases }

InitDispatch ==
    /\ \E rom \in StoreRoms : bus = Bus_new(rom)
    /\ ppu = NesPPU_new("VERTICAL")
    /\ cpu = CPU_new
    /\ loop_pc = At("reset", 0, 0)
    /\ fatal = FALSE
    /\ op = "new"
    /\ arg = 0
    /\ ret = 0
    /\ hist = NoNmi

NextDispatch == Reset \/ FlowPoll \/ FlowFetch \/ Execute \/ Retire

SpecDispatch == InitDispatch /\ [][NextDispatch]_vars

\* the handler of opcode code is about to run
Executes(code) == loop_pc.at = "exec" /\ loop_pc.code = code

\* the byte of RAM at address a after the step
Stored(a) == Load(bus'.cpu_vram, a)

\* register AND (high byte of the address + 1)
HighPlusOne(register, a) == BitAnd(register, (a \div 256) + 1)

(* C31: opcode 0x9C executes SHY, which stores Y AND (high byte of the      *)
(* target address + 1), and opcode 0x9E executes SHX, which stores X AND    *)
(* (high byte + 1); every opcode byte is dispatched to the handler of       *)
(* exactly one mnemonic.                                                    *)
C31_Dispatch ==
    [][/\ Executes(156) =>
            Stored(RomWord(loop_pc.original_pc) + cpu.register_x)
                = HighPlusOne(cpu.register_y, RomWord(loop_pc.original_pc) + cpu.register_x)
       /\ Executes(158) =>
            Stored(RomWord(loop_pc.original_pc) + cpu.register_y)
                = HighPlusOne(cpu.register_x, RomWord(loop_pc.original_pc) + cpu.register_y)
       /\ \A code \in 0..255 :
            Cardinality({i \in DOMAIN Arms : code \in Arms[i].codes}) = 1]_vars

\* 0x9C with X = 0xFF and Y = 0 on 0x0200: the cell 0x02FF holds X AND 3
C31_Witness ==
    /\ op = "shy" /\ loop_pc.at = "tick" /\ loop_pc.code = 156
    /\ cpu.register_x = 255 /\ cpu.register_y = 0
    /\ Load(bus.cpu_vram, 767) = 3

---------------------------------------------------------------------------
(* The unofficial read-modify-write opcodes on a zero-page operand:        *)
(* LDA #v; STA $10; LDA #a; [SEC;] then the opcode on $10, run from reset  *)

RmwCodes == {7, 39, 71, 103, 199, 231}
RmwBytes == {0, 1, 16, 127, 128, 255}
RmwCarries == {FALSE, TRUE}

RmwRoms ==
    { Flow(32768, <<169, v, 133, 16, 169, a>>
                      \o (IF carry THEN <<56>> ELSE <<>>) \o <<code, 16>>, 0) :
        v \in RmwBytes, a \in RmwBytes, carry \in RmwCarries, code \in RmwCodes }

InitRmw ==
    /\ \E rom \in RmwRoms : bus = Bus_new(rom)
    /\ ppu = NesPPU_new("VERTICAL")
    /\ cpu = CPU_new
    /\ loop_pc = At("reset", 0, 0)
    /\ fatal = FALSE
    /\ op = "new"
    /\ arg = 0
    /\ ret = 0
    /\ hist = NoNmi

NextRmw == Reset \/ FlowPoll \/ FlowFetch \/ Execute \/ Retire

SpecRmw == InitRmw /\ [][NextRmw]_vars

\* the pair of official instructions of an unofficial opcode, run one after
\* the other on the operand of the opcode
Pair(code, m, mode) ==
    CASE code = 199 -> cmp(dec(m, mode), mode)
      [] code = 231 -> sbc(inc(m, mode), mode)
      [] code = 7 -> ora(asl(m, mode), mode)
      [] code = 39 -> and(rol(m, mode), mode)
      [] code = 71 -> eor(lsr(m, mode), mode)
      [] code = 103 -> adc(ror(m, mode), mode)

\* A, the memory operand and the flags C, Z, V and N
Outcome(c, b) ==
    [ register_a |-> c.register_a,
      operand |-> Load(b.cpu_vram, 16),
      flags |-> BitAnd(c.status, CARRY + ZERO + OVERFLOW + NEGATIVE) ]

OutcomeOf(m) == Outcome(m.cpu, m.bus)

(* C32: each unofficial read-modify-write opcode leaves the same A, memory  *)
(* operand and C, Z, V, N flags as its pair of official instructions run in *)
(* sequence from the same state on the same operand: DCP = DEC then CMP,    *)
(* ISB = INC then SBC with the carry as it was before the instruction,      *)
(* SLO = ASL then ORA, RLA = ROL then AND, SRE = LSR then EOR, RRA = ROR    *)
(* then ADC.                                                                *)
C32_Pairs ==
    [][(loop_pc.at = "exec" /\ loop_pc.code \in RmwCodes) =>
          Outcome(cpu', bus')
              = OutcomeOf(Pair(loop_pc.code, Machine, OpCode(loop_pc.code).addr_mode))]_vars

\* ISB on 0x00 with A = 0x10 and carry clear: the operand becomes 0x01 and
\* A becomes 0x0F, where INC then SBC leaves 0x0E
C32_Witness ==
    /\ op = "isb" /\ loop_pc.at = "tick"
    /\ bus.rom.code = <<169, 0, 133, 16, 169, 16, 231, 16>>
    /\ Load(bus.cpu_vram, 16) = 1
    /\ cpu.register_a = 15

---------------------------------------------------------------------------
(* Cycle accounting: a pointer stored at $20, LDX #i; LDY #i; then one     *)
(* load, arithmetic, compare or store instruction in each of its           *)
(* addressing modes, run from reset                                        *)

PenaltyMnemonics == {"lda", "ldx", "ldy", "adc", "sbc", "and", "ora", "eor", "cmp"}
StoreMnemonics == {"sta", "stx", "sty"}
CycleCodes == {c \in OpCodes : OpCode(c).mnemonic \in PenaltyMnemonics \cup StoreMnemonics}
CycleIndexes == {0, 1, 255}
CycleBases == {512, 640, 767}

\* the operand bytes: the address for the absolute modes, $20 otherwise
OperandBytes(code, base) ==
    IF OpCode(code).bytes = 3 THEN <<base % 256, base \div 256>> ELSE <<32>>

CycleRoms ==
    { Flow(32768, <<169, base % 256, 133, 32, 169, base \div 256, 133, 33,
                    162, i, 160, i, code>> \o OperandBytes(code, base), 0) :
        code \in CycleCodes, i \in CycleIndexes, base \in CycleBases }

InitCycles ==
    /\ \E rom \in CycleRoms : bus = Bus_new(rom)
    /\ ppu = NesPPU_new("VERTICAL")
    /\ cpu = CPU_new
    /\ loop_pc = At("reset", 0, 0)
    /\ fatal = FALSE
    /\ op = "new"
    /\ arg = 0
    /\ ret = 0
    /\ hist = NoNmi

NextCycles == Reset \/ FlowPoll \/ FlowFetch \/ Execute \/ Retire

SpecCycles == InitCycles /\ [][NextCycles]_vars

\* the instruction under test is the last of the program
UnderTest == loop_pc.original_pc = bus.rom.org + 13

\* the un-indexed base address and the index of an indexed mode
BaseAddress(mode) ==
    IF mode = "IndirectY"
    THEN Load(bus.cpu_vram, RomByte(loop_pc.original_pc))
            + 256 * Load(bus.cpu_vram, (RomByte(loop_pc.original_pc) + 1) % 256)
    ELSE RomWord(loop_pc.original_pc)

Index(mode) == IF mode = "AbsoluteX" THEN cpu.register_x ELSE cpu.register_y

\* the page-cross penalty of the instruction about to run or just run
Penalty(entry) ==
    IF /\ entry.mnemonic \in PenaltyMnemonics
       /\ entry.addr_mode \in {"AbsoluteX", "AbsoluteY", "IndirectY"}
       /\ (((BaseAddress(entry.addr_mode) + Index(entry.addr_mode)) % 65536) \div 256)
              # (BaseAddress(entry.addr_mode) \div 256)
    THEN 1 ELSE 0

(* C33: LDA, LDX, LDY, ADC, SBC, AND, ORA, EOR and CMP in AbsoluteX,        *)
(* AbsoluteY or IndirectY mode add base_cycles + 1 to Bus.cycles when the   *)
(* indexed address lies in another 256-byte page than the un-indexed base   *)
(* address and base_cycles otherwise; in every other addressing mode, and   *)
(* for store instructions, the instruction adds base_cycles. The handler    *)
(* adds the penalty and the end of the iteration adds base_cycles.          *)
C33_PageCross ==
    [][/\ (loop_pc.at = "exec" /\ UnderTest /\ ~fatal') =>
            bus'.cycles = bus.cycles + Penalty(OpCode(loop_pc.code))
       /\ (EndsIteration /\ UnderTest) =>
            bus'.cycles = bus.cycles + OpCode(loop_pc.code).cycles]_vars

\* LDA ($20),Y with the pointer 0x02FF and Y = 1: 5 + 1 cycles after the 14
\* of the instructions before it
C33_Witness ==
    /\ loop_pc.at = "top" /\ op = "tick" /\ arg = 5
    /\ bus.rom.code[13] = 177 /\ cpu.register_y = 1
    /\ Load(bus.cpu_vram, 32) = 255 /\ Load(bus.cpu_vram, 33) = 2
    /\ bus.cycles = 20

---------------------------------------------------------------------------
(* Polling PPUSTATUS across the start of vertical blank: n NOPs, then      *)
(* loop: LDA $2002; JMP loop, run from reset for a frame                   *)

PollDelays == {0, 2}

Nops(n) == [k \in 1..n |-> 234]

PollRoms ==
    { Flow(32768, Nops(n) \o <<173, 2, 32, 76, n, 128>>, 0) : n \in PollDelays }

InitVblank ==
    /\ \E rom \in PollRoms : bus = Bus_new(rom)
    /\ ppu = NesPPU_new("VERTICAL")
    /\ cpu = CPU_new
    /\ loop_pc = At("reset", 0, 0)
    /\ fatal = FALSE
    /\ op = "new"
    /\ arg = 0
    /\ ret = 0
    /\ hist = NoNmi

NextVblank == Reset \/ PollNmi \/ Fetch \/ Execute \/ Retire

SpecVblank == InitVblank /\ [][NextVblank]_vars

\* the instruction of the current iteration is LDA $2002
ReadsStatus == loop_pc.code = 173 /\ RomWord(loop_pc.original_pc) = 8194

(* C34: the bus accesses of a handler take effect before the trailing      *)
(* bus.tick of the iteration: LDA $2002 loads the status of before the     *)
(* tick and clears VERTICAL_BLANK with the PPU where the previous          *)
(* iteration left it, and when the trailing tick of that instruction moves *)
(* the scanline to 241 the byte read has VERTICAL_BLANK clear and the flag *)
(* the tick sets stays set.                                                *)
C34_ReadBeforeTick ==
    [][/\ (loop_pc.at = "exec" /\ ReadsStatus) =>
            /\ cpu'.register_a = ppu.status
            /\ ppu'.status = Remove(ppu.status, VERTICAL_BLANK)
            /\ ppu'.scanline = ppu.scanline /\ ppu'.cycles = ppu.cycles
            /\ bus'.cycles = bus.cycles
       /\ (EndsIteration /\ ReadsStatus) =>
            /\ ppu' = NesPPU_tick(ppu, 12).ppu
            /\ cpu'.register_a = cpu.register_a
       /\ (EndsIteration /\ ReadsStatus /\ ppu'.scanline = 241 /\ ppu.scanline = 240) =>
            /\ ~Contains(cpu'.register_a, VERTICAL_BLANK)
            /\ Contains(ppu'.status, VERTICAL_BLANK)]_vars

\* the LDA $2002 whose trailing tick started vertical blank has retired
C34_Witness ==
    /\ loop_pc.at = "top" /\ op = "tick" /\ arg = 4
    /\ ppu.scanline = 241 /\ ppu.cycles < 12
    /\ ~Contains(cpu.register_a, VERTICAL_BLANK)
    /\ Contains(ppu.status, VERTICAL_BLANK)

---------------------------------------------------------------------------
(* C35: in every reachable PPU state a set VERTICAL_BLANK flag implies     *)
(* 241 <= scanline <= 261, and a pending NMI token (nmi_interrupt = Some)  *)
(* implies 241 <= scanline <= 261.                                         *)
C35_VblankWindow ==
    /\ Contains(ppu.status, VERTICAL_BLANK) => ppu.scanline \in 241..261
    /\ ppu.nmi_interrupt # None => ppu.scanline \in 241..261

\* the last scanline of vertical blank with the flag set and a token that a
\* PPUCTRL write raised there
C35_Witness ==
    /\ ppu.scanline = 261
    /\ Contains(ppu.status, VERTICAL_BLANK)
    /\ ppu.nmi_interrupt = Some(1)
    /\ op = "write_to_ctrl" /\ hist.nmi_interrupt = None

---------------------------------------------------------------------------
(* The B flag: a program that writes the NMI handler PLA; LDA #v; PHA; RTI *)
(* to 0x0000 (where the NMI vector of the image points), enables NMI,      *)
(* pulls v into P and then loops over PHP; PLA; PHA; PLP for a frame; and   *)
(* LDA #v; PHA; PLP followed by BRK                                        *)

PulledBytes == {16, 223, 255}

BreakRoms ==
    { Flow(32768, <<169, 104, 133, 0, 169, 169, 133, 1, 169, v, 133, 2,
                    169, 72, 133, 3, 169, 64, 133, 4,
                    162, 128, 142, 0, 32,
                    169, v, 72, 40,
                    8, 104, 72, 40, 76, 29, 128>>, 0) : v \in PulledBytes }
        \cup { Flow(32768, <<169, v, 72, 40>>, 0) : v \in PulledBytes }

InitBreak ==
    /\ \E rom \in BreakRoms : bus = Bus_new(rom)
    /\ ppu = NesPPU_new("VERTICAL")
    /\ cpu = CPU_new
    /\ loop_pc = At("reset", 0, 0)
    /\ fatal = FALSE
    /\ op = "new"
    /\ arg = 0
    /\ ret = 0
    /\ hist = NoNmi

NextBreak == Reset \/ PollNmi \/ Interrupt \/ Fetch \/ Execute \/ Retire

SpecBreak == InitBreak /\ [][NextBreak]_vars

(* C36: after reset BREAK2 is set in P in every reachable CPU state and    *)
(* BREAK is clear at every opcode fetch (PLP, RTI and the NMI delivery     *)
(* never leave BREAK set), so the run loop ends only in the iteration that *)
(* executes opcode 0x00 and never because a byte pulled from the stack had *)
(* bit 4 set.                                                              *)
C36_BreakFlag ==
    /\ Contains(cpu.status, BREAK2)
    /\ loop_pc.at \in {"top", "fetch", "exec"} => ~Contains(cpu.status, BREAK)
    /\ op \in {"plp", "rti", "interrupt"} => ~Contains(cpu.status, BREAK)
    /\ loop_pc.at = "done" => loop_pc.code = 0

\* the RTI of the NMI handler has pulled a byte with bit 4 set into P
C36_Witness ==
    /\ op = "rti" /\ loop_pc.at = "tick"
    /\ Contains(Load(bus.cpu_vram, 256 + cpu.stack_pointer - 2), BREAK)
    /\ ~Contains(cpu.status, BREAK)
    /\ hist.delivered = 1

---------------------------------------------------------------------------
(* The joypad and the frame callback of main.rs: the program              *)
(* loop: LDX #1; STX $4016; LDY #0; STY $4016; LDA $4016 (8 times); JMP   *)
(* runs from reset for two frames; at each new frame the callback handles *)
(* the key events the host has queued                                     *)

MaxPadCycles == 59600

KeyDown(key) == [down |-> TRUE, key |-> key]
KeyUp(key) == [down |-> FALSE, key |-> key]

PadEvents ==
    { <<>>, <<KeyDown("S")>>, <<KeyUp("S")>>, <<KeyDown("S"), KeyDown("D")>>,
      <<KeyDown("Q")>> }

keymap(key) ==
    CASE key = "W" -> Some(16)
      [] key = "A" -> Some(64)
      [] key = "S" -> Some(32)
      [] key = "D" -> Some(128)
      [] key = "Space" -> Some(4)
      [] key = "Return" -> Some(8)
      [] key = "Num1" -> Some(1)
      [] key = "Num2" -> Some(2)
      [] OTHER -> None

\* one arm of the match on a polled event
handle_event(j, event) ==
    IF keymap(event.key) = None THEN j
    ELSE IF event.down THEN Joypad_press(j, keymap(event.key)[1])
    ELSE Joypad_release(j, keymap(event.key)[1])

RECURSIVE game_loop_callback(_, _)
\* for event in event_pump.poll_iter() { .. }
game_loop_callback(j, events) ==
    IF events = <<>> THEN j
    ELSE game_loop_callback(handle_event(j, Head(events)), Tail(events))

\* Bus::tick has left m; before is the number of frames seen before it
FrameCallback(m, before, events) ==
    IF m.bus.callbacks > before
    THEN [m EXCEPT !.bus.joypad1 = game_loop_callback(@, events)]
    ELSE m

PadRom ==
    Flow(32768, <<162, 1, 142, 22, 64, 160, 0, 140, 22, 64,
                  173, 22, 64, 173, 22, 64, 173, 22, 64, 173, 22, 64,
                  173, 22, 64, 173, 22, 64, 173, 22, 64, 173, 22, 64,
                  76, 0, 128>>, 0)

InitPad ==
    /\ bus = Bus_new(PadRom)
    /\ ppu = NesPPU_new("VERTICAL")
    /\ cpu = CPU_new
    /\ loop_pc = At("reset", 0, 0)
    /\ fatal = FALSE
    /\ op = "new"
    /\ arg = 0
    /\ ret = 0
    /\ hist = NoNmi

CanPad == ~fatal /\ bus.cycles < MaxPadCycles

PadPoll ==
    /\ CanPad /\ loop_pc.at = "top"
    /\ Becomes([Machine EXCEPT !.ppu = Bus_poll_nmi_status(ppu).ppu],
               Bus_poll_nmi_status(ppu).ppu, FALSE)
    /\ loop_pc' = At("fetch", 0, 0)
    /\ op' = "poll" /\ arg' = 0 /\ ret' = 0

PadFetch ==
    /\ CanPad /\ loop_pc.at = "fetch"
    /\ Fetched(Bus_mem_read(Machine, cpu.program_counter))

\* the trailing bus.tick(opcode.cycles), whose new frame runs the callback
PadRetire ==
    /\ ~fatal /\ loop_pc.at = "tick"
    /\ \E events \in PadEvents :
         Retired(FrameCallback(Tick(Machine, OpCode(loop_pc.code).cycles),
                               bus.callbacks, events),
                 OpCode(loop_pc.code))

NextPad == Reset \/ PadPoll \/ PadFetch \/ Execute \/ PadRetire

SpecPad == InitPad /\ [][NextPad]_vars

\* the instruction of the current iteration is LDA $4016
ReadsPad == loop_pc.code = 173 /\ RomWord(loop_pc.original_pc) = 16406

(* C37: button_status changes only inside the frame callback, and nothing  *)
(* is latched at strobe time: the k-th read after the strobe returns the   *)
(* state button k has when the read is made, so a press or release that    *)
(* the callback of a frame boundary between the strobe write and that read *)
(* has made is reflected in it.                                            *)
C37_NoLatch ==
    [][/\ bus'.joypad1.button_status # bus.joypad1.button_status =>
            loop_pc.at = "tick" /\ bus'.callbacks = bus.callbacks + 1
       /\ (loop_pc.at = "exec" /\ ReadsPad /\ bus.joypad1.button_index < 8) =>
            /\ ~bus.joypad1.strobe
            /\ cpu'.register_a = Held(bus.joypad1, bus.joypad1.button_index)
            /\ bus'.joypad1.button_index = bus.joypad1.button_index + 1]_vars

\* the strobe was written at cycles 29753-29763 with no button held, the
\* first frame ended with the fifth read, its callback pressed DOWN, and the
\* sixth read returns 1
C37_Witness ==
    /\ op = "lda" /\ loop_pc.at = "tick"
    /\ bus.cycles = 29783 /\ bus.callbacks = 1
    /\ bus.joypad1.button_index = 6
    /\ cpu.register_a = 1

---------------------------------------------------------------------------
(* PPUDATA accesses to the nametables under each mirroring the cartridge   *)
(* parser produces                                                         *)

MaxScreenOps == 4
ScreenAddrBytes == {32, 39, 40, 47, 255}
ScreenData == {102}

\* the screen mirroring of every one-bank image Rom::new accepts
ParsedMirrorings ==
    { Rom_new(Image(Header(NES_TAG, 1, 1, f6, 0), 16, 0, 0)).rom.mirroring :
        f6 \in {0, 1, 8} }

InitScreen ==
    /\ \E m \in ParsedMirrorings : ppu = NesPPU_new(m)
    /\ bus = Bus_new(test_rom)
    /\ cpu = CPU_idle
    /\ loop_pc = "none"
    /\ fatal = FALSE
    /\ op = "new"
    /\ arg = 0
    /\ ret = 0
    /\ hist = [steps |-> 0, wrote |-> 0, byte |-> 0]

CanScreen == ~fatal /\ hist.steps < MaxScreenOps

ScreenWriteAddr ==
    \E d \in ScreenAddrBytes :
        /\ CanScreen
        /\ MirrorCall("write_to_ppu_addr", d,
                      [ppu |-> write_to_ppu_addr(ppu, d), ret |-> 0, ok |-> TRUE], hist)

ScreenReadData == CanScreen /\ MirrorCall("read_data", 0, read_data(ppu), hist)

ScreenWriteData ==
    \E d \in ScreenData :
        /\ CanScreen
        /\ MirrorCall("write_to_data", d, write_to_data(ppu, d),
                      [hist EXCEPT !.wrote = VramAddr(ppu), !.byte = d])

NextScreen == ScreenWriteAddr \/ ScreenReadData \/ ScreenWriteData

SpecScreen == InitScreen /\ [][NextScreen]_vars

InNametables(a) == a >= 8192 /\ a <= 12287

(* C38: for HORIZONTAL, VERTICAL and FOURSCREEN mirroring and every PPU    *)
(* address in 0x2000-0x2FFF the index mirror_vram_addr computes is below   *)
(* 2048, so a PPUDATA read or write to the nametables never accesses vram  *)
(* out of bounds.                                                          *)
C38_VramBounds ==
    [][ InNametables(VramAddr(ppu)) =>
          /\ mirror_vram_addr(ppu, VramAddr(ppu)) < VRAM_SIZE
          /\ op' \in {"read_data", "write_to_data"} => ~fatal' ]_vars

\* FOURSCREEN: the PPUDATA write at 0x2800 has indexed vram at 2048
C38_Witness ==
    /\ op = "write_to_data" /\ fatal
    /\ ppu.mirroring = "FOURSCREEN"
    /\ VramAddr(ppu) = 10240
    /\ mirror_vram_addr(ppu, VramAddr(ppu)) = 2048

---------------------------------------------------------------------------
\* the palette_table index read_data uses for the address a
ReadIndex(a) == IF IsPaletteAlias(a) THEN BitAnd(a - 16, 16128) ELSE BitAnd(a, 31)

InPalette(a) == a >= 16128 /\ a <= 16383

(* C39: for every PPU address a in the palette region 0x3F00-0x3FFF a      *)
(* PPUDATA write stores into the palette_table slot that a PPUDATA read at *)
(* a returns (the palette repeats every 32 bytes for writes as for reads), *)
(* and the write never indexes palette_table out of bounds.                *)
C39_PaletteRegion ==
    [][ (op' = "write_to_data" /\ InPalette(VramAddr(ppu))) =>
          /\ ~fatal'
          /\ ppu'.palette_table = Store(ppu.palette_table, ReadIndex(VramAddr(ppu)), arg') ]_vars

\* the PPUDATA write at 0x3F3F has indexed palette_table at 63
C39_Witness ==
    /\ op = "write_to_data" /\ fatal
    /\ VramAddr(ppu) = 16191
    /\ VramAddr(ppu) - 16128 >= PALETTE_SIZE

---------------------------------------------------------------------------
(* CPU::load and CPU::load_and_run on a freshly built machine, next to the *)
(* cpu.reset() main.rs starts with                                         *)

PROGRAM_START == 1536

u16_mem_write_high(m, address, value) ==
    IF m.ok THEN Bus_mem_write(m, address + 1, value \div 256) ELSE m

u16_mem_write(m, address, value) ==
    u16_mem_write_high(Bus_mem_write(m, address, value % 256), address, value)

RECURSIVE load_bytes(_, _, _)
\* for (i, byte) in program.iter().enumerate() { mem_write(PROGRAM_START + i, byte) }
load_bytes(m, program, i) ==
    IF i > Len(program) THEN m
    ELSE load_bytes(Bus_mem_write(m, PROGRAM_START + i - 1, program[i]), program, i + 1)

load(m, program) == u16_mem_write(load_bytes(m, program, 1), RESET_VECTOR, PROGRAM_START)

MaxProgramLen == 3
ProgramBytes == {0, 96, 169, 255}
Programs == UNION { [1..n -> ProgramBytes] : n \in 0..MaxProgramLen }
LoadRoms == {test_rom, Flow(32768, <<234>>, 0)}
EntryPoints == {"load", "reset"}

InitLoad ==
    /\ \E rom \in LoadRoms : bus = Bus_new(rom)
    /\ ppu = NesPPU_new("VERTICAL")
    /\ cpu = CPU_new
    /\ \E entry \in EntryPoints : loop_pc = At(entry, 0, 0)
    /\ fatal = FALSE
    /\ op = "new"
    /\ arg \in Programs
    /\ ret = 0
    /\ hist = NoNmi

\* self.load(program), the first statement of load_and_run
LoadProgram ==
    /\ loop_pc.at = "load"
    /\ Becomes(load(Machine, arg), ppu, FALSE)
    /\ loop_pc' = At(IF load(Machine, arg).ok THEN "reset" ELSE "panic", 0, 0)
    /\ op' = "load" /\ ret' = 0
    /\ UNCHANGED arg

\* Reset is the self.reset() that follows in load_and_run, and the
\* cpu.reset() of main.rs
NextLoad == LoadProgram \/ Reset

SpecLoad == InitLoad /\ [][NextLoad]_vars

(* C40: CPU.load(program) followed by reset completes without a fatal      *)
(* error and leaves PC = 0x0600 with the program bytes readable from       *)
(* 0x0600 onward.                                                          *)
C40_LoadAndReset ==
    [][ /\ op' = "load" => ~fatal'
        /\ (op = "load" /\ op' = "reset") =>
              /\ ~fatal'
              /\ cpu'.program_counter = PROGRAM_START
              /\ \A i \in 1..Len(arg) :
                    Load(bus'.cpu_vram, PROGRAM_START + i - 1) = arg[i] ]_vars

\* load has copied LDA #$FF; RTS to 0x0600 and ended in the write of the
\* reset vector
C40_Witness ==
    /\ op = "load" /\ fatal /\ loop_pc.at = "panic"
    /\ arg = <<169, 255, 96>>
    /\ \A i \in 1..3 : Load(bus.cpu_vram, PROGRAM_START + i - 1) = arg[i]

=============================================================================
